---- MODULE Spec2Model ----
(***************************************************************************)
(* A state-machine model of the ARKODE time-stepping driver of SUNDIALS    *)
(* (src/src/arkode/arkode.c, src/src/arkode/arkode_root.c).                *)
(*                                                                         *)
(* Numbers.  Times and step sizes are integers ("ticks").  The unit        *)
(* roundoff is the rational 1/UroundInv, and every comparison against a    *)
(* roundoff-sized tolerance is made exactly by cross-multiplication.  A    *)
(* step-size ratio (eta, etamax, ...) is a fixed-point integer in units of *)
(* 1/EtaScale; a product h*eta is rounded to the nearest tick, halves      *)
(* away from zero.  Vectors are tokens: <<"y0">> is the initial condition, *)
(* <<"step", t, h>> is the stepper's result for the step from t with size  *)
(* h, <<"dky", t>> an interpolant evaluated at t, <<"plus", t>> the        *)
(* forward-Euler probe used by the root checks.  Return codes and internal *)
(* flags are strings carrying the source's names; NegCodes are the codes   *)
(* that are negative integers in the source.                               *)
(***************************************************************************)
EXTENDS Integers, Sequences, FiniteSets, TLC

\* ------------------------------------------------------------------------
\* Resolution of the number model
\* ------------------------------------------------------------------------
\* uround = 1 / UroundInv
UroundInv == 10^3

\* eta = (fixed-point value) / EtaScale
EtaScale == 10^3

FUZZ_FACTOR == 100

HUND == 100

\* ONEPSM = ONEPSM_NUM / ONEPSM_DEN = 1.000001
ONEPSM_NUM == 1000001

ONEPSM_DEN == 1000000

ONE == EtaScale

TENTH == EtaScale \div 10

\* ------------------------------------------------------------------------
\* Bounds of the explored behaviours
\* ------------------------------------------------------------------------
\* number of ARKodeEvolve calls made by the user program
MaxCalls == 3

\* number of internal steps completed over the whole run
MaxSteps == 3

\* ------------------------------------------------------------------------
\* Arithmetic helpers
\* ------------------------------------------------------------------------
SUNRabs(x) == IF x < 0 THEN -x ELSE x

Sgn(x) == IF x < 0 THEN -1 ELSE IF x > 0 THEN 1 ELSE 0

SUNMAX(a, b) == IF a > b THEN a ELSE b

SUNMIN(a, b) == IF a < b THEN a ELSE b

\* a / b rounded to the nearest integer (b > 0), halves away from zero
RDiv(a, b) == Sgn(a) * ((2 * SUNRabs(a) + b) \div (2 * b))

\* the product h * eta, in ticks
MulEta(h, eta) == RDiv(h * eta, EtaScale)

\* the ratio a / b (b # 0) as a fixed-point eta
Ratio(a, b) == IF b < 0 THEN RDiv((-a) * EtaScale, -b) ELSE RDiv(a * EtaScale, b)

\* x * (ONE - FOUR*uround), in ticks
OneMinus4U(x) == RDiv(x * (UroundInv - 4), UroundInv)

\* |d| <= FUZZ_FACTOR * uround * (|t| + |h|)
WithinRoundoff(d, t, h) ==
  SUNRabs(d) * UroundInv <= FUZZ_FACTOR * (SUNRabs(t) + SUNRabs(h))

\* |h| <= hmin * ONEPSM
AtHmin(h, hmin) == SUNRabs(h) * ONEPSM_DEN <= hmin * ONEPSM_NUM

\* ------------------------------------------------------------------------
\* Return codes and internal flags
\* ------------------------------------------------------------------------
\* the codes arkHandleFailure returns unchanged
HandledCodes ==
  { "ARK_ERR_FAILURE", "ARK_CONV_FAILURE", "ARK_LSETUP_FAIL", "ARK_LSOLVE_FAIL",
    "ARK_RHSFUNC_FAIL", "ARK_UNREC_RHSFUNC_ERR", "ARK_REPTD_RHSFUNC_ERR",
    "ARK_RTFUNC_FAIL", "ARK_TOO_CLOSE", "ARK_CONSTR_FAIL", "ARK_MASSSOLVE_FAIL",
    "ARK_NLS_SETUP_FAIL", "ARK_VECTOROP_ERR", "ARK_INNERSTEP_FAIL",
    "ARK_NLS_OP_ERR", "ARK_USER_PREDICT_FAIL", "ARK_POSTPROCESS_STEP_FAIL",
    "ARK_POSTPROCESS_STAGE_FAIL", "ARK_INTERP_FAIL", "ARK_INVALID_TABLE",
    "ARK_RELAX_FAIL", "ARK_RELAX_MEM_NULL", "ARK_RELAX_FUNC_FAIL",
    "ARK_RELAX_JAC_FAIL", "ARK_ADJ_RECOMPUTE_FAIL", "ARK_ADJ_CHECKPOINT_FAIL",
    "ARK_SUNADJSTEPPER_ERR", "ARK_DOMEIG_FAIL", "ARK_MAX_STAGE_LIMIT_FAIL",
    "ARK_SUNSTEPPER_ERR" }

\* every code that is a negative integer in the source
NegCodes ==
  HandledCodes \cup
  { "ARK_TOO_MUCH_WORK", "ARK_TOO_MUCH_ACC", "ARK_ILL_INPUT", "ARK_MEM_NULL",
    "ARK_MEM_FAIL", "ARK_BAD_T", "ARK_BAD_DKY", "ARK_CONTROLLER_ERR",
    "ARK_UNRECOGNIZED_ERROR" }

IsNeg(code) == code \in NegCodes

\* arkHandleFailure: the code ARKodeEvolve reports for a failed step
arkHandleFailure(flag) ==
  IF flag \in HandledCodes THEN flag ELSE "ARK_UNRECOGNIZED_ERROR"

\* ------------------------------------------------------------------------
\* The user program: problem and options
\* ------------------------------------------------------------------------
\* initial time passed to arkInit
T0 == 0

\* output times the user program asks for
Touts == {6, 9}

\* the task modes of ARKodeEvolve
Tasks == {"ARK_NORMAL", "ARK_ONE_STEP"}

\* The user-supplied and pluggable functions whose failure is explored:
\*   "efun"  the error-weight function fails
\*   "acc"   the weighted norm of yn asks for too much accuracy
\*   "rhs"   the full right-hand side fails
\*   "g"     the root function fails
\*   "interp" arkInterpEvaluate fails
\*   "conv"  the stepper's nonlinear solve fails recoverably
\*   "nonconv" the stepper's nonlinear solve fails to converge on every attempt
\*   "err"   the stepper's local error estimate fails the error test
\*   "nls"   the stepper fails unrecoverably
\*   "retry" the stepper rejects the step size (ARK_RETRY_STEP)
\*   "constr" the step violates the inequality constraints
\*   "relax" the relaxation module fails
\*   "post"  the user's ProcessStep function fails
\*   "adapt" the step-size controller fails to propose a step (arkAdapt)
\*   "controller" the step-size controller fails to update (arkCompleteStep)
\*   "jac"   the Jacobian or linear system function fails
\*   "hnil"  tcur + h == tcur in floating point (top of the step loop)
Faults ==
  { "efun", "acc", "rhs", "g", "interp", "conv", "nonconv", "err", "nls", "retry",
    "constr", "relax", "post", "adapt", "controller", "jac", "hnil" }

\* the faults of e that can show in a phase which consults the functions fs
May(e, fs) == {"none"} \cup (e \cap fs)

\* the options the user program may set before the first ARKodeEvolve call;
\* hmax = 0 stands for hmax_inv = 0 (no upper bound), otherwise hmax_inv = 1/hmax;
\* rootT = -1 stands for "no root function", otherwise g(t) = t - rootT;
\* faults are the functions that can fail in the run
DefaultOptions ==
  [ fixedstep |-> FALSE, hin |-> 0, hmin |-> 0, hmax |-> 0, mxstep |-> 0,
    tstop |-> -1, tstopinterp |-> FALSE, interp |-> TRUE,
    constraintsSet |-> FALSE, relax_enabled |-> FALSE, force_pass |-> FALSE,
    rootT |-> -1, maxncf |-> 2, maxnef |-> 3, maxconstrfails |-> 4,
    mxhnil |-> 10, faults |-> {} ]

\* the user programs explored: the defaults, and the defaults with one or
\* two features of the driver switched on
Options ==
  { DefaultOptions,
    [DefaultOptions EXCEPT !.faults = {"conv", "err"}],
    [DefaultOptions EXCEPT !.faults = {"nls", "retry", "adapt"}],
    [DefaultOptions EXCEPT !.faults = {"post", "controller"}],
    [DefaultOptions EXCEPT !.faults = {"efun", "acc", "rhs"}],
    [DefaultOptions EXCEPT !.tstop = 9],
    [DefaultOptions EXCEPT !.tstop = 5, !.tstopinterp = TRUE, !.faults = {"interp"}],
    [DefaultOptions EXCEPT !.tstop = 9, !.rootT = 9],
    [DefaultOptions EXCEPT !.tstop = 9, !.rootT = 5],
    [DefaultOptions EXCEPT !.rootT = 5, !.faults = {"g"}],
    [DefaultOptions EXCEPT !.hmin = 3, !.hmax = 6, !.faults = {"conv", "err"}],
    [DefaultOptions EXCEPT !.hmin = 3, !.hmax = 6, !.tstop = 9],
    [DefaultOptions EXCEPT !.mxstep = 2, !.faults = {"efun"}],
    [DefaultOptions EXCEPT !.constraintsSet = TRUE, !.maxncf = 1, !.maxnef = 1,
                           !.faults = {"constr", "err"}],
    [DefaultOptions EXCEPT !.relax_enabled = TRUE, !.faults = {"relax"}],
    [DefaultOptions EXCEPT !.force_pass = TRUE, !.faults = {"err"}],
    [DefaultOptions EXCEPT !.force_pass = TRUE, !.faults = {"nonconv"}],
    [DefaultOptions EXCEPT !.fixedstep = TRUE, !.hin = 4, !.tstop = 10,
                           !.faults = {"conv", "retry"}],
    [DefaultOptions EXCEPT !.interp = FALSE, !.hin = 4],
    [DefaultOptions EXCEPT !.maxncf = 1, !.faults = {"nonconv"}] }

VARIABLES
  env,    \* the functions that can fail in this run (a subset of Faults)
  ark,    \* the ARKodeMem record (struct ARKodeMemRec), root and adaptivity modules included
  loc,    \* arguments and local variables of the ARKodeEvolve call in progress (or last made)
  pc,     \* position of the ARKodeEvolve call: "idle" (not in a call), "top" (of the
          \* step loop), "attempt" (in the loop over step attempts)
  tret,   \* the caller's *tret
  ret,    \* value returned by the last ARKodeEvolve call ("none" before the first)
  tol,    \* the tolerance fields of ark_mem, the weight vector ewt, and the last
          \* call of the weight function efun since the tolerances were set (call)
  arkls_mem, \* the linear solver interface (struct ARKLsMemRec), the jcur flag of
          \* the stepper, whether the caller holds the matrix ARKodeGetJac
          \* returned (shared), and the last arkLsSetup call (call)
  arkls_massmem, \* the mass-matrix solver interface (struct ARKLsMassMemRec) and the
          \* last arkLsMassSetup call (call)
  root_mem, \* the allocation state of the root-finding memory (ARKodeRootMemRec) and
          \* the last ARKodeRootInit call (call)
  obs     \* history of the run: calls made, where the last return was issued (from),
          \* the flag a failed step raised and the attempts that step had made,
          \* the last completed step (good: conv and cons say that its attempt
          \* counted no convergence failure and no constraint failure), the last rescaling of h by eta (scale),
          \* the failure counters and the stepper's return value with which the
          \* attempt loop was last left (cnt),
          \* whether the call ended at a failure of the weight function (wfail),
          \* the last ARKodeReset or re-initialization since the last
          \* ARKodeEvolve call, with ark_mem as it was before it (rst), and
          \* the number of resets and re-initializations made (nrst)

vars == <<env, ark, loc, pc, tret, ret, obs, tol, root_mem, arkls_mem, arkls_massmem>>

\* the caller's output vector: ARKodeEvolve stores yout in ark_mem->ycur
yout == ark.ycur

\* ark_mem after arkCreate, arkInit(t0, y0, FIRST_INIT) and the option setters
InitArk(o) ==
  [ \* options
    fixedstep |-> o.fixedstep, hin |-> o.hin, hmin |-> o.hmin, hmax |-> o.hmax,
    mxstep |-> o.mxstep, mxhnil |-> o.mxhnil, nhnil |-> 0, tstop |-> IF o.tstop < 0 THEN 0 ELSE o.tstop,
    tstopset |-> o.tstop >= 0, tstopinterp |-> o.tstopinterp,
    interp_type |-> o.interp, constraintsSet |-> o.constraintsSet,
    relax_enabled |-> o.relax_enabled, force_pass |-> o.force_pass,
    maxncf |-> o.maxncf, maxnef |-> o.maxnef,
    maxconstrfails |-> o.maxconstrfails, small_nef |-> 2,
    etacf |-> EtaScale \div 2, etamxf |-> (3 * EtaScale) \div 4,
    etamx1 |-> 4 * EtaScale, growth |-> 2 * EtaScale,
    \* integrator state
    tcur |-> T0, tn |-> T0, yn |-> <<"y0">>, ycur |-> <<"null">>, iyn |-> <<"null">>,
    h |-> 0, hprime |-> 0, next_h |-> 0, hold |-> 0, h0u |-> 0,
    eta |-> 0, etamax |-> 0, tretlast |-> T0,
    nst |-> 0, ncfn |-> 0, chist |-> 0, init_type |-> "FIRST_INIT", initsetup |-> TRUE, initialized |-> FALSE, interp |-> FALSE,
    last_kflag |-> "ARK_SUCCESS", fn_is_current |-> FALSE,
    \* root-finding module (root_mem)
    nrtfn |-> IF o.rootT < 0 THEN 0 ELSE 1, rootT |-> o.rootT,
    irfnd |-> 0, tlo |-> T0, glo |-> 0, gactive |-> TRUE,
    toutc |-> T0, taskc |-> "ARK_NORMAL" ]

\* the locals of ARKodeEvolve before any call; stepk is the value of kflag
\* as the stepper returned it, before the checks of the attempt overwrite it,
\* adaptfail tells that arkAdapt failed in the error test of the attempt
InitLoc ==
  [ tout |-> T0, itask |-> "ARK_NORMAL", nstloc |-> 0, kflag |-> "ARK_SUCCESS",
    stepk |-> "none", adaptfail |-> FALSE,
    nflag |-> "FIRST_CALL", ncf |-> 0, nef |-> 0, constrfails |-> 0,
    relax_fails |-> 0, attempts |-> 0, dsm |-> 0 ]

\* no call of the weight function on record
NoEwtCall == [made |-> FALSE, y |-> <<>>, retval |-> 0]

\* the vectors arkAllocVectors allocates in arkInit
InitVectors == {"ewt", "yn", "tempv1", "tempv2", "tempv3", "tempv4"}

\* the value a tolerance function returned and what made it fail: "input"
\* (a negative tolerance) or "alloc" (arkAllocVec)
SetRet(retval, cause) == [retval |-> retval, cause |-> cause]

\* the tolerance fields after arkCreate (memset, line 1503) and arkInit, which
\* allocates ewt and tempv1 (vectors); ewt = <<>> until it is first written,
\* Vabstol = <<>> until it is allocated, itol = "none" until efun is set;
\* set is the outcome of the last tolerance function called.
\* Ownership: mem says that the ARKodeMem structure exists; vectors that the
\* vectors of arkAllocVectors exist; rwt that a residual weight vector of
\* its own exists (rwt_is_ewt: rwt is an alias of ewt); VRabstol = <<>>
\* until it is allocated; lrw counts, in units of lrw1, the vectors that
\* arkAllocVec has added to ark_mem->lrw.  fn, tempv5 and constraints are
\* never allocated here.
InitTol ==
  [ itol |-> "none", reltol |-> 0, Sabstol |-> 0, Vabstol |-> <<>>,
    atolmin0 |-> FALSE, vectors |-> TRUE, ewt |-> <<>>, call |-> NoEwtCall,
    set |-> SetRet("none", "none"),
    mem |-> TRUE, MallocDone |-> TRUE, VabstolMallocDone |-> FALSE,
    VRabstolMallocDone |-> FALSE, rwt_is_ewt |-> TRUE, rwt |-> FALSE,
    ritol |-> "none", SRabstol |-> 0, VRabstol |-> <<>>, Ratolmin0 |-> FALSE,
    user_efun |-> FALSE, user_rfun |-> FALSE,
    lrw |-> Cardinality(InitVectors) ]

\* the root work arrays, in the order of their allocation
RootArrays == <<"glo", "ghi", "grout", "iroots", "rootdir", "gactive">>

\* no root work array is allocated (a size of 0 stands for a NULL pointer)
NoArrays == [a \in {RootArrays[i] : i \in DOMAIN RootArrays} |-> 0]

\* no call of ARKodeRootInit on record
NoRootCall == [nrtfn |-> 0, g |-> "NULL", retval |-> "none"]

\* the root-finding memory after arkCreate: ark_mem->root_mem = NULL (mem) and
\* ark_mem->fn = NULL (fn); the other fields are those lines 84-93 give a
\* newly allocated structure; lrw is what ARKodeRootInit has added to
\* ark_mem->lrw for the work arrays, calls counts the calls made
InitRootMem ==
  [ mem |-> FALSE, fn |-> FALSE, nrtfn |-> 0, gfun |-> "NULL", size |-> NoArrays,
    lrw |-> 0, calls |-> 0, call |-> NoRootCall ]

\* a matrix that holds no Jacobian: state is "NULL" (not allocated) or
\* "alloc" (allocated, contents not set); a matrix that holds the Jacobian
\* evaluated at step nst and time t has state "J", one whose evaluation was
\* started and failed has state "partial"
NoJac(state) == [state |-> state, nst |-> 0, t |-> T0]

\* no call of arkLsSetup on record; in a call, jok is the flag passed to the
\* linear system function, jr the sign of the value the Jacobian or linear
\* system function returned (0 when it was not called), retval the sign of
\* the value arkLsSetup returned
\* no call of arkLsSolve or arkLsMassSolve on record
NoSolve == [made |-> FALSE, n |-> 0, code |-> "SUN_SUCCESS", mnewt |-> 0, retval |-> 0]

NoLsCall ==
  [made |-> FALSE, convfail |-> "ARK_NO_FAILURES", dgamma_fail |-> FALSE,
   jok |-> FALSE, evaluated |-> FALSE, jr |-> 0, retval |-> 0]

\* the value ARKodeSetJacEvalFrequency gives msbj
JacEvalFrequency == 2

\* the interface after ARKodeSetLinearSolver with a matrix A and a direct
\* linear solver (lines 196-255), ARKodeSetJacEvalFrequency and, when
\* user_linsys, ARKodeSetLinSysFn
\* no call of arkLsDQJtimes on record
NoDQ == [made |-> FALSE, n |-> 0]

InitLsMem(user_linsys) ==
  [ A |-> NoJac("alloc"), savedJ |-> NoJac("NULL"), user_linsys |-> user_linsys,
    msbj |-> JacEvalFrequency, jbad |-> TRUE, nje |-> 0, nstlj |-> 0, tnlj |-> T0,
    last_flag |-> "ARKLS_SUCCESS", jcur |-> FALSE, shared |-> FALSE,
    ncfl |-> 0, call |-> NoLsCall, solve |-> NoSolve, nfeDQ |-> 0, dq |-> NoDQ ]

\* msetuptime = -SUN_BIG_REAL: a time no setup is close to
NeverSetUp == T0 - 1

\* no call of arkLsMassSetup on record
NoMassCall == [made |-> FALSE, n |-> 0, t |-> T0, assembled |-> FALSE, retval |-> 0, prev |-> 0]

\* the mass interface after ARKodeSetMassLinearSolver with a matrix M and a
\* direct linear solver, ARKodeSetMassFn and arkLsMassInitialize (lines
\* 4036-4048); M and M_lu hold the time for which they were last filled and
\* factored successfully
InitMassMem(time_dep) ==
  [ time_dependent |-> time_dep, msetuptime |-> NeverSetUp, nmsetups |-> 0,
    M |-> NeverSetUp, M_lu |-> NeverSetUp, last_flag |-> "ARKLS_SUCCESS",
    nmsolves |-> 0, ncfl |-> 0, call |-> NoMassCall, solve |-> NoSolve ]

\* no reset or re-initialization on record
NoReset == [kind |-> "none", tR |-> T0, ret |-> "none", before |-> [initialized |-> FALSE]]

\* nothing observed yet
InitObs ==
  [ calls |-> 0, from |-> "none", raised |-> "none", attempts |-> 0,
    good |-> [t |-> T0, y |-> <<"y0">>, n |-> 0, conv |-> TRUE, cons |-> TRUE],
    chk |-> [root |-> FALSE, tn |-> FALSE, tstop |-> FALSE,
             beyond |-> FALSE, tout |-> FALSE],
    nroot |-> 0, ntstop |-> 0, prev |-> [ret |-> "none", tout |-> T0],
    scale |-> [at |-> "none", h |-> 0, eta |-> 0, etamax |-> 0],
    cnt |-> [ncf |-> 0, nef |-> 0, stepk |-> "none", adaptfail |-> FALSE],
    wfail |-> FALSE, rst |-> NoReset, nrst |-> 0,
    hnil |-> [warn |-> 0, done |-> 0] ]

\* the state after arkCreate, the option setters of the user program o and
\* arkInit, the linear solver interfaces apart
InitOf(o) ==
  /\ ark = InitArk(o) /\ env = o.faults
  /\ loc = InitLoc
  /\ pc = "idle"
  /\ tret = T0
  /\ ret = "none"
  /\ obs = InitObs
  /\ tol = InitTol
  /\ root_mem = InitRootMem

Init ==
  /\ \E o \in Options : InitOf(o)
  /\ arkls_mem = InitLsMem(FALSE)
  /\ arkls_massmem = InitMassMem(FALSE)

\* ------------------------------------------------------------------------
\* Results of the driver's subroutines: a flag and the updated ark_mem
\* ------------------------------------------------------------------------
R(flag, a) == [flag |-> flag, ark |-> a]

\* ------------------------------------------------------------------------
\* ARKodeGetDky (k = 0): evalfail is the outcome of arkInterpEvaluate
\* ------------------------------------------------------------------------
\* (t - tp) * (t - tn1) > 0, with tp = tcur - hold - tfuzz, tn1 = tcur + tfuzz
\* and every quantity scaled by UroundInv
BadT(a, t) ==
  LET tf    == FUZZ_FACTOR * (SUNRabs(a.tcur) + SUNRabs(a.hold))
      tfuzz == IF a.hold < 0 THEN -tf ELSE tf
      tp    == (a.tcur - a.hold) * UroundInv - tfuzz
      tn1   == a.tcur * UroundInv + tfuzz
  IN  Sgn(t * UroundInv - tp) * Sgn(t * UroundInv - tn1) > 0

ARKodeGetDky(a, t, evalfail) ==
  IF ~a.interp THEN "ARK_MEM_NULL"
  ELSE IF BadT(a, t) THEN "ARK_BAD_T"
  ELSE IF evalfail THEN "ARK_INTERP_FAIL"
  ELSE "ARK_SUCCESS"

\* ------------------------------------------------------------------------
\* Root finding (arkode_root.c), one root function g(t, y) = t - rootT.
\* Only the sign of g is kept.  Times passed to Rootg are scaled by UroundInv
\* so that tlo + ttol can be represented.
\* ------------------------------------------------------------------------
Rootg(a, ts) == Sgn(ts - a.rootT * UroundInv)

\* ttol * UroundInv
Ttol(a) == (SUNRabs(a.tcur) + SUNRabs(a.h)) * HUND

DIFFERENT_SIGN(x, y) == (x < 0 /\ y > 0) \/ (x > 0 /\ y < 0)

\* arkRootCheck1: gfail says that the user's g fails
arkRootCheck1(a, gfail) ==
  LET a1  == [a EXCEPT !.tlo = a.tcur]
      glo == Rootg(a, a.tcur * UroundInv)
  IN  IF gfail THEN R("ARK_RTFUNC_FAIL", a1)
      ELSE IF glo # 0 THEN R("ARK_SUCCESS", [a1 EXCEPT !.glo = glo])
      ELSE
        LET smallh == Sgn(a.h) * SUNMAX(Ttol(a), (SUNRabs(a.h) * UroundInv) \div 10)
            tplus  == a.tcur * UroundInv + smallh
            ghi    == Rootg(a, tplus)
            a2     == [a1 EXCEPT !.glo = 0, !.gactive = FALSE,
                                 !.fn_is_current = TRUE,
                                 !.ycur = <<"plus", a.tcur>>]
        IN  IF ghi # 0
              THEN R("ARK_SUCCESS", [a2 EXCEPT !.gactive = TRUE, !.glo = ghi])
              ELSE R("ARK_SUCCESS", a2)

\* arkRootCheck2
arkRootCheck2(a, gfail) ==
  IF a.irfnd = 0 THEN R("ARK_SUCCESS", a)
  ELSE
    LET a1  == [a EXCEPT !.ycur = <<"dky", a.tlo>>]
        glo == Rootg(a, a.tlo * UroundInv)
        a2  == [a1 EXCEPT !.glo = glo]
    IN  IF gfail THEN R("ARK_RTFUNC_FAIL", a1)
        ELSE IF ~(a.gactive /\ glo = 0) THEN R("ARK_SUCCESS", a2)
        ELSE
          LET smallh == IF a.h > 0 THEN Ttol(a) ELSE -Ttol(a)
              tplus  == a.tlo * UroundInv + smallh
              ghi    == Rootg(a, tplus)
              a3     == [a2 EXCEPT !.ycur = <<"plus", a.tlo>>]
          IN  IF ghi = 0 THEN R("CLOSERT", a3)
              ELSE R("ARK_SUCCESS", [a3 EXCEPT !.glo = ghi])

\* arkRootfind on (tlo, thi] with ghi = g(thi).  For the linear g the first
\* secant iterate is the zero itself, so a detected sign change ends with
\* trout = rootT and grout = 0, unless the interval is already within ttol.
arkRootfind(a, thi, ghi) ==
  LET zroot  == a.gactive /\ ghi = 0
      sgnchg == a.gactive /\ ghi # 0 /\ DIFFERENT_SIGN(a.glo, ghi)
  IN  IF ~sgnchg
        THEN [ier |-> IF zroot THEN "RTFOUND" ELSE "ARK_SUCCESS",
              trout |-> thi, grout |-> ghi]
      ELSE IF SUNRabs(thi - a.tlo) * UroundInv <= Ttol(a)
        THEN [ier |-> "RTFOUND", trout |-> thi, grout |-> ghi]
      ELSE [ier |-> "RTFOUND", trout |-> a.rootT, grout |-> 0]

\* arkRootCheck3
arkRootCheck3(a, gfail) ==
  LET attcur == a.taskc = "ARK_ONE_STEP" \/ (a.toutc - a.tcur) * a.h >= 0
      thi    == IF attcur THEN a.tcur ELSE a.toutc
      a1     == [a EXCEPT !.ycur = IF attcur THEN a.yn ELSE <<"dky", thi>>]
      rf     == arkRootfind(a, thi, Rootg(a, thi * UroundInv))
      a2     == [a1 EXCEPT !.gactive = @ \/ rf.grout # 0,
                           !.tlo = rf.trout, !.glo = rf.grout]
  IN  IF gfail THEN R("ARK_RTFUNC_FAIL", a1)
      ELSE IF rf.ier = "ARK_SUCCESS" THEN R("ARK_SUCCESS", a2)
      ELSE R("RTFOUND", [a2 EXCEPT !.ycur = <<"dky", rf.trout>>])

\* ------------------------------------------------------------------------
\* arkInitialSetup
\* ------------------------------------------------------------------------
\* magnitude of the step arkHin proposes for a problem whose time scale is
\* HinScale ticks: never beyond the distance to tout
HinScale == 4

arkHin(a, tout, fault) ==
  IF tout - a.tcur = 0 THEN R("ARK_TOO_CLOSE", a)
  ELSE IF fault = "rhs" THEN R("ARK_RHSFUNC_FAIL", a)
  ELSE R("ARK_SUCCESS",
         [a EXCEPT !.fn_is_current = TRUE,
                   !.h = Sgn(tout - a.tcur) * SUNMIN(HinScale, SUNRabs(tout - a.tcur))])

\* "Enforce step size bounds": rh = |h|*hmax_inv; if rh > 1, h /= rh;
\* if |h| < hmin, h *= hmin/|h|
EnforceBounds(a, h) ==
  LET h1 == IF a.hmax # 0 /\ SUNRabs(h) > a.hmax THEN Sgn(h) * a.hmax ELSE h
  IN  IF SUNRabs(h1) < a.hmin THEN Sgn(h1) * a.hmin ELSE h1

\* "Check for approach to tstop": the step h from tcur clipped to tstop
ClipToTstop(a, h) ==
  IF a.tstopset /\ (a.tcur + h - a.tstop) * h > 0
    THEN OneMinus4U(a.tstop - a.tcur)
    ELSE h

\* lines 2207-2227: the first step h of a2, bounded and clipped to tstop
BoundInitStep(a2) ==
  LET a3 == [a2 EXCEPT !.h = EnforceBounds(a2, a2.h)]
      h4 == ClipToTstop(a3, a3.h)
  IN  R("ARK_SUCCESS", [a3 EXCEPT !.h = h4, !.h0u = h4, !.eta = ONE, !.hprime = h4])

\* lines 2184-2227: hn is the result of the step-size estimate
InitStepFrom(hn, etamax) ==
  IF hn.flag # "ARK_SUCCESS" THEN R(arkHandleFailure(hn.flag), hn.ark)
  ELSE BoundInitStep([hn.ark EXCEPT !.etamax = etamax])

\* a setup that gives every first step after arkInit the bound etamx1
SetInitStep_AlwaysFirstBound(a, tout, fault) ==
  IF a.h0u = 0
    THEN InitStepFrom(R("ARK_SUCCESS",
                        [a EXCEPT !.h = IF a.hin = 0 THEN SUNRabs(tout - a.tcur)
                                        ELSE a.hin]),
                      a.etamx1)
    ELSE R("ARK_SUCCESS", [a EXCEPT !.etamax = a.etamx1])

\* lines 2160-2242: the initial step size, or the clipping of hprime
SetInitStep(a, tout, fault) ==
  IF a.h0u = 0 THEN
    LET a1 == [a EXCEPT !.h = a.hin]
    IN  IF a1.h # 0 /\ (tout - a.tcur) * a1.h < 0 THEN R("ARK_ILL_INPUT", a1)
        ELSE
          LET tout_hin == IF a.tstopset /\ (tout - a.tcur) * (tout - a.tstop) > 0
                            THEN a.tstop ELSE tout
          IN  InitStepFrom(
                IF a.hin = 0
                  THEN arkHin([a1 EXCEPT !.h = IF tout = a.tcur THEN 1
                                               ELSE SUNRabs(tout - a.tcur)],
                              tout_hin, fault)
                  ELSE R("ARK_SUCCESS", a1),
                IF a.hin = 0 \/ a.nst = 0 THEN a.etamx1 ELSE a.growth)
  ELSE IF a.tstopset /\ (a.tcur + a.hprime - a.tstop) * a.h > 0 THEN
    LET hp == OneMinus4U(a.tstop - a.tcur)
    IN  R("ARK_SUCCESS", [a EXCEPT !.hprime = hp, !.eta = Ratio(hp, a.h)])
  ELSE R("ARK_SUCCESS", a)

\* lines 2160-2254: st is the result of the step-size setup; then the
\* root functions are checked at the initial time
SetupRoots(st, fault) ==
  IF st.flag # "ARK_SUCCESS" THEN st
  ELSE IF st.ark.nrtfn > 0 THEN arkRootCheck1(st.ark, fault = "g")
  ELSE st

\* lines 1980-2006: fixed-step mode without a step size, or tstop behind tcur
BadSetupInputs(a, tout) ==
  \/ a.fixedstep /\ a.hin = 0
  \/ a.tstopset /\ (a.tstop - a.tcur) * (IF a.h = 0 THEN tout - a.tcur ELSE a.h) <= 0

arkInitialSetup(a, tout, fault) ==
  LET a1   == [a EXCEPT !.interp = a.interp_type]
  IN  IF BadSetupInputs(a, tout) THEN R("ARK_ILL_INPUT", a)
      ELSE IF fault = "efun" THEN R("ARK_ILL_INPUT", a)
      ELSE IF a.nrtfn > 0 /\ ~a1.interp THEN R("ARK_ILL_INPUT", a1)
      ELSE IF a.tstopinterp /\ ~a1.interp THEN R("ARK_ILL_INPUT", a1)
      ELSE SetupRoots(SetInitStep([a1 EXCEPT !.initialized = TRUE], tout, fault), fault)

\* ------------------------------------------------------------------------
\* arkStopTests.  The result carries ret = "none" when the function returns
\* 0 (no stop), otherwise the value stored in *ier, and the caller's *tret.
\* ------------------------------------------------------------------------
S(code, a, tr) == [ret |-> code, ark |-> a, tret |-> tr]

\* lines 2325-2363: c3 is the result of arkRootCheck3 and irfndp the value
\* irfnd had when arkStopTests was entered from the state a
StopRoots3(a, c3, irfndp, itask, tr) ==
  IF c3.flag = "ARK_SUCCESS" THEN
    IF irfndp = 1 /\ itask = "ARK_ONE_STEP"
      THEN S("ARK_SUCCESS",
             [c3.ark EXCEPT !.irfnd = 0, !.tretlast = a.tcur, !.ycur = a.yn], a.tcur)
      ELSE S("none", [c3.ark EXCEPT !.irfnd = 0], tr)
  ELSE IF c3.flag = "RTFOUND"
    THEN S("ARK_ROOT_RETURN",
           [c3.ark EXCEPT !.irfnd = 1, !.tretlast = c3.ark.tlo], c3.ark.tlo)
  ELSE S("ARK_RTFUNC_FAIL", c3.ark, tr)

\* lines 2297-2363: c2 is the result of arkRootCheck2
StopRoots2(a, c2, itask, tr, fault) ==
  IF c2.flag = "CLOSERT" THEN S("ARK_ILL_INPUT", c2.ark, tr)
  ELSE IF c2.flag = "ARK_RTFUNC_FAIL" THEN S("ARK_RTFUNC_FAIL", c2.ark, tr)
  ELSE IF c2.flag = "RTFOUND"
    THEN S("ARK_ROOT_RETURN", [c2.ark EXCEPT !.tretlast = c2.ark.tlo], c2.ark.tlo)
  ELSE IF WithinRoundoff(a.tcur - a.tretlast, a.tcur, a.h) THEN S("none", c2.ark, tr)
  ELSE StopRoots3(a, arkRootCheck3(c2.ark, fault = "g"), a.irfnd, itask, tr)

\* lines 2283-2364: roots in the last step
StopRoots(a, itask, tr, fault) ==
  LET needf == ~a.fn_is_current /\ a.irfnd # 0
  IN  IF needf /\ fault = "rhs" THEN S("ARK_RHSFUNC_FAIL", a, tr)
      ELSE StopRoots2(a, arkRootCheck2(IF needf THEN [a EXCEPT !.fn_is_current = TRUE]
                                       ELSE a, fault = "g"),
                      itask, tr, fault)

\* the test shared by arkStopTests and the post-step check:
\* tcur is at tstop within roundoff and tout is at or beyond tstop
TstopReached(a, tout) ==
  /\ a.tstopset
  /\ WithinRoundoff(a.tcur - a.tstop, a.tcur, a.h)
  /\ \/ (tout - a.tstop) * a.h >= 0
     \/ WithinRoundoff(tout - a.tstop, a.tcur, a.h)

\* "If next step would overtake tstop, adjust stepsize" (the else-if branch)
TstopAdjust(a) ==
  IF /\ a.tstopset
     /\ ~WithinRoundoff(a.tcur - a.tstop, a.tcur, a.h)
     /\ (a.tcur + a.hprime - a.tstop) * a.h > 0
    THEN LET hp == OneMinus4U(a.tstop - a.tcur)
         IN  [a EXCEPT !.hprime = hp, !.eta = Ratio(hp, a.h)]
    ELSE a

\* a return at tstop that leaves the stop time set
TstopReturn_KeepsTstop(a) ==
  S("ARK_TSTOP_RETURN",
    [a EXCEPT !.ycur = IF a.tstopinterp /\ a.interp THEN <<"dky", a.tstop>> ELSE a.yn,
              !.tretlast = a.tstop],
    a.tstop)

\* the state and *tret of a return at tstop
TstopReturn(a) ==
  S("ARK_TSTOP_RETURN",
    [a EXCEPT !.ycur = IF a.tstopinterp /\ a.interp THEN <<"dky", a.tstop>> ELSE a.yn,
              !.tretlast = a.tstop, !.tstopset = FALSE],
    a.tstop)

\* the state and *tret of a return at tout in ARK_NORMAL mode
ToutReturn(a, tout) ==
  IF a.interp
    THEN S("ARK_SUCCESS", [a EXCEPT !.ycur = <<"dky", tout>>, !.tretlast = tout], tout)
    ELSE S("ARK_SUCCESS", [a EXCEPT !.ycur = a.yn, !.tretlast = a.tcur], a.tcur)

\* the state and *tret of a return at tcur with the solution yn
TcurReturn(code, a) ==
  S(code, [a EXCEPT !.ycur = a.yn, !.tretlast = a.tcur], a.tcur)

\* lines 2366-2437: tstop, tout and one-step tests
StopTimes(a, tout, itask, tr, fault) ==
  LET a1 == TstopAdjust(a)
  IN  IF TstopReached(a, tout) THEN
        IF /\ a.tstopinterp /\ a.interp
           /\ ARKodeGetDky(a, a.tstop, fault = "interp") # "ARK_SUCCESS"
          THEN S("ARK_ILL_INPUT", a, tr)
          ELSE TstopReturn(a)
      ELSE IF itask = "ARK_NORMAL" /\ (a.tcur - tout) * a.h >= 0 THEN
        IF a.interp /\ ARKodeGetDky(a1, tout, fault = "interp") # "ARK_SUCCESS"
          THEN S("ARK_ILL_INPUT", a1, tr)
          ELSE ToutReturn(a1, tout)
      ELSE IF /\ itask = "ARK_ONE_STEP"
              /\ ~WithinRoundoff(a.tcur - a.tretlast, a.tcur, a.h)
        THEN TcurReturn("ARK_SUCCESS", a1)
      ELSE S("none", a1, tr)

\* r1 is the outcome of the root tests
StopTimesAfterRoots(r1, tout, itask, fault) ==
  IF r1.ret # "none" THEN r1
  ELSE StopTimes(r1.ark, tout, itask, r1.tret, fault)

arkStopTests(a, tout, itask, tr, fault) ==
  StopTimesAfterRoots(IF a.nrtfn > 0 THEN StopRoots(a, itask, tr, fault)
                      ELSE S("none", a, tr),
                      tout, itask, fault)

\* ------------------------------------------------------------------------
\* One step attempt (the body of the inner loop of ARKodeEvolve).
\* Each subroutine maps (ark_mem, locals) to a flag and their new values.
\* ------------------------------------------------------------------------
Q(flag, a, l) == [flag |-> flag, ark |-> a, loc |-> l]

\* What the time stepper (ark_mem->step, a pluggable module) may do in one
\* invocation: its return value kflag, the nonlinear-solver flag nflag, and
\* whether the local error estimate passes (dsm = 0) or not (dsm = 2).
StepOutcomes(e) ==
  IF "nonconv" \in e
    THEN { [kflag |-> "TRY_AGAIN", nflag |-> "CONV_FAIL", dsm |-> 0] } ELSE
  { [kflag |-> "ARK_SUCCESS", nflag |-> "ARK_SUCCESS", dsm |-> 0] }
  \cup (IF "err" \in e
          THEN { [kflag |-> "ARK_SUCCESS", nflag |-> "ARK_SUCCESS", dsm |-> 2] }
          ELSE {})
  \cup (IF "conv" \in e
          THEN { [kflag |-> "TRY_AGAIN", nflag |-> "CONV_FAIL", dsm |-> 0],
                 [kflag |-> "TRY_AGAIN", nflag |-> "RHSFUNC_RECVR", dsm |-> 0] }
          ELSE {})
  \cup (IF "nls" \in e
          THEN { [kflag |-> "TRY_AGAIN", nflag |-> "ARK_LSETUP_FAIL", dsm |-> 0],
                 [kflag |-> "ARK_RHSFUNC_FAIL", nflag |-> "ARK_SUCCESS", dsm |-> 0] }
          ELSE {})
  \cup (IF "retry" \in e
          THEN { [kflag |-> "ARK_RETRY_STEP", nflag |-> "ARK_RETRY_STEP", dsm |-> 0] }
          ELSE {})

\* the step-size factor a stepper asks for when it returns ARK_RETRY_STEP
RetryEta == EtaScale \div 2

\* the stepper call: fills ycur with its result for the step (tn, h)
step(a, l, so) ==
  Q(so.kflag,
    [a EXCEPT !.ycur = <<"step", a.tn, a.h>>,
              !.eta = IF so.kflag = "ARK_RETRY_STEP" THEN RetryEta ELSE @],
    [l EXCEPT !.nflag = so.nflag, !.dsm = so.dsm, !.stepk = so.kflag])

\* arkCheckConvergence
\* no further convergence failure is allowed: ncf failures have been counted
\* in the step and ncf is at maxncf, or |h| is at hmin
NoMoreConvFails_OneLate(ncf, a) == ncf = a.maxncf + 1 \/ AtHmin(a.h, a.hmin)

NoMoreConvFails(ncf, a) == ncf = a.maxncf \/ AtHmin(a.h, a.hmin)

arkCheckConvergence(a, l) ==
  IF l.nflag = "ARK_SUCCESS" THEN Q("ARK_SUCCESS", a, l)
  ELSE IF l.nflag = "ARK_RETRY_STEP" THEN Q("ARK_RETRY_STEP", a, l)
  ELSE
    LET l2 == [l EXCEPT !.ncf = @ + 1]
        a1 == [a EXCEPT !.ncfn = @ + 1]
        a2 == [a EXCEPT !.ncfn = @ + 1, !.etamax = ONE]
    IN  IF a.fixedstep THEN Q("ARK_CONV_FAILURE", a1, l)
        ELSE IF IsNeg(l.nflag) THEN
          IF l.nflag \in {"ARK_LSETUP_FAIL", "ARK_LSOLVE_FAIL", "ARK_RHSFUNC_FAIL"}
            THEN Q(l.nflag, a1, l)
            ELSE Q("ARK_NLS_OP_ERR", a1, l)
        ELSE IF /\ NoMoreConvFails(l2.ncf, a)
                /\ l.nflag \in {"CONV_FAIL", "RHSFUNC_RECVR"}
          THEN Q(IF l.nflag = "CONV_FAIL" THEN "ARK_CONV_FAILURE"
                 ELSE "ARK_REPTD_RHSFUNC_ERR", a2, l2)
        ELSE Q("PREDICT_AGAIN", [a2 EXCEPT !.eta = a.etacf],
               [l2 EXCEPT !.nflag = "PREV_CONV_FAIL"])

\* what the relaxation module (arkRelax) may do
RelaxOutcomes == {"ok", "recover", "fatal"}

\* relaxation failures allowed in one step before the module gives up
MaxRelaxFails == 2

\* the step-size factor requested after a recoverable relaxation failure
RelaxEta == EtaScale \div 2

\* arkRelax: on success ycur is relaxed (the relaxation parameter is 1 at
\* the resolution of the tick grid, so h and dsm keep their values); on a
\* recoverable failure eta is updated and a retry requested; a fatal error
\* returns a negative flag
arkRelax(a, l, rx) ==
  IF rx = "ok" THEN Q("ARK_SUCCESS", [a EXCEPT !.ycur = <<"relax", a.tn, a.h>>], l)
  ELSE IF rx = "fatal" THEN Q("ARK_RELAX_FUNC_FAIL", a, l)
  ELSE
    LET l1 == [l EXCEPT !.relax_fails = @ + 1]
    IN  IF l1.relax_fails = MaxRelaxFails THEN Q("ARK_RELAX_FAIL", a, l1)
        ELSE Q("TRY_AGAIN", [a EXCEPT !.eta = RelaxEta], l1)

\* 0.9 * N_VMinQuotient(yn, mm*(yn - ycur)) for the violations modelled
ConstrEta == EtaScale \div 2

\* a constraint check that allows one failure more than maxconstrfails
arkCheckConstraints_OneMore(a, l, passed) ==
  IF passed THEN Q("ARK_SUCCESS", a, l)
  ELSE
    LET l1 == [l EXCEPT !.constrfails = @ + 1]
    IN  IF l1.constrfails = a.maxconstrfails + 1 THEN Q("ARK_CONSTR_FAIL", a, l1)
        ELSE IF a.fixedstep THEN Q("ARK_CONSTR_FAIL", a, l1)
        ELSE IF AtHmin(a.h, a.hmin) THEN Q("ARK_CONSTR_FAIL", a, l1)
        ELSE Q("CONSTR_RECVR", [a EXCEPT !.eta = SUNMAX(EtaScale \div 2, TENTH)],
               [l1 EXCEPT !.nflag = "PREV_CONV_FAIL"])

\* arkCheckConstraints: passed is the result of N_VConstrMask on ycur
arkCheckConstraints(a, l, passed) ==
  IF passed THEN Q("ARK_SUCCESS", a, l)
  ELSE
    LET l1 == [l EXCEPT !.constrfails = @ + 1]
    IN  IF l1.constrfails = a.maxconstrfails THEN Q("ARK_CONSTR_FAIL", a, l1)
        ELSE IF a.fixedstep THEN Q("ARK_CONSTR_FAIL", a, l1)
        ELSE IF AtHmin(a.h, a.hmin) THEN Q("ARK_CONSTR_FAIL", a, l1)
        ELSE Q("CONSTR_RECVR", [a EXCEPT !.eta = SUNMAX(ConstrEta, TENTH)],
               [l1 EXCEPT !.nflag = "PREV_CONV_FAIL"])

\* the bounds arkCheckTemporalError enforces on eta:
\* eta = min(eta, etamax); eta = max(eta, hmin/|h|);
\* eta /= max(1, |h| * hmax_inv * eta)
BoundEta(a, eta) ==
  LET e1 == SUNMIN(eta, a.etamax)
      e2 == SUNMAX(e1, Ratio(a.hmin, SUNRabs(a.h)))
  IN  IF a.hmax # 0 /\ SUNRabs(a.h) * e2 > a.hmax * EtaScale
        THEN Ratio(a.hmax, SUNRabs(a.h))
        ELSE e2

\* what arkAdapt (the step-size controller) may recommend after a passed and
\* after a failed error test; 0 stands for a failure of arkAdapt
AdaptOutcomes(dsm, e) ==
  (IF dsm <= 1 THEN {EtaScale, 2 * EtaScale} ELSE {EtaScale \div 2})
  \cup (IF "adapt" \in e THEN {0} ELSE {})

\* arkCheckTemporalError: ad is the eta recommended by arkAdapt
arkCheckTemporalError(a, l, ad) ==
  LET a1 == [a EXCEPT !.eta = BoundEta(a, ad)]
      l1 == [l EXCEPT !.nef = @ + 1, !.nflag = "PREV_ERR_FAIL"]
      a3 == [a1 EXCEPT !.etamax = ONE]
      e4 == IF l1.nef >= a.small_nef THEN SUNMIN(a3.eta, a.etamxf) ELSE a3.eta
  IN  IF ad = 0 THEN Q("ARK_ERR_FAILURE", a, [l EXCEPT !.adaptfail = TRUE])
      ELSE IF l.dsm <= 1 THEN Q("ARK_SUCCESS", a1, l)
      ELSE IF l1.nef = a.maxnef THEN Q("ARK_ERR_FAILURE", a1, l1)
      ELSE Q("TRY_AGAIN", [a3 EXCEPT !.eta = BoundEta(a3, e4)], l1)

\* "unsuccessful step, if |h| = hmin, return ARK_ERR_FAILURE"
StepTooSmall(a) == AtHmin(a.h, a.hmin)

\* one pass through the attempt loop; exit tells how the pass ends:
\* "retry" (loop again), "break" (leave the loop with kflag = flag) or
\* "return" (ARKodeEvolve returns flag at once)
X(exit, q) == [exit |-> exit, flag |-> q.flag, ark |-> q.ark,
               loc |-> [q.loc EXCEPT !.kflag = q.flag]]

\* a forced pass that does not record the status of the attempt
AfterErrorTest_NoRecord(a, te) ==
  IF IsNeg(te.flag) THEN X("break", te)
  ELSE IF a.force_pass \/ te.flag = "ARK_SUCCESS"
    THEN X("break", Q("ARK_SUCCESS", te.ark, te.loc))
  ELSE X("return", Q("ARK_ERR_FAILURE", te.ark, te.loc))

\* lines 967-1005: te is the outcome of the error test
AfterErrorTest(a, te) ==
  IF IsNeg(te.flag) THEN X("break", te)
  ELSE IF a.force_pass
    THEN X("break", Q("ARK_SUCCESS", [te.ark EXCEPT !.last_kflag = te.flag], te.loc))
  ELSE IF te.flag = "ARK_SUCCESS" THEN X("break", te)
  ELSE IF StepTooSmall(te.ark) THEN X("return", Q("ARK_ERR_FAILURE", te.ark, te.loc))
  ELSE X("retry", Q(te.flag,
                    [te.ark EXCEPT !.h = MulEta(te.ark.h, te.ark.eta),
                                   !.next_h = MulEta(te.ark.h, te.ark.eta),
                                   !.hprime = MulEta(te.ark.h, te.ark.eta)],
                    te.loc))

\* an attempt loop that makes the error test in fixed-step mode too
AfterConstraints_WithErrorTest(a, cn, ad) ==
  IF IsNeg(cn.flag) THEN X("break", cn)
  ELSE AfterErrorTest(a, IF cn.flag = "ARK_SUCCESS"
                           THEN arkCheckTemporalError(cn.ark, cn.loc, ad) ELSE cn)

\* lines 947-1005: cn is the outcome of the constraint check
AfterConstraints(a, cn, ad) ==
  IF IsNeg(cn.flag) THEN X("break", cn)
  ELSE IF a.fixedstep THEN X("break", Q(cn.flag, [cn.ark EXCEPT !.eta = ONE], cn.loc))
  ELSE AfterErrorTest(a, IF cn.flag = "ARK_SUCCESS"
                           THEN arkCheckTemporalError(cn.ark, cn.loc, ad) ELSE cn)

\* lines 936-1005: rl is the outcome of the relaxation
AfterRelax(a, rl, passed, ad) ==
  IF IsNeg(rl.flag) THEN X("break", rl)
  ELSE AfterConstraints(a, IF a.constraintsSet /\ rl.flag = "ARK_SUCCESS"
                             THEN arkCheckConstraints(rl.ark, rl.loc, passed) ELSE rl,
                        ad)

\* lines 924-1005: cv is the outcome of arkCheckConvergence
AfterConvergence(a, cv, rx, passed, ad) ==
  IF IsNeg(cv.flag) THEN X("break", cv)
  ELSE AfterRelax(a, IF a.relax_enabled /\ cv.flag = "ARK_SUCCESS"
                       THEN arkRelax(cv.ark, cv.loc, rx) ELSE cv,
                  passed, ad)

\* lines 914-1005: s is the outcome of the stepper
AfterStep(a, s, rx, passed, ad) ==
  IF IsNeg(s.flag) THEN X("break", s)
  ELSE AfterConvergence(a, arkCheckConvergence(s.ark, s.loc), rx, passed, ad)

\* lines 894-1007: the attempt is counted unless it retries at the stepper's
\* request
Attempt(a, l, so, rx, passed, ad) ==
  AfterStep(a,
            step(a, [l EXCEPT !.attempts = IF l.kflag # "ARK_RETRY_STEP"
                                             THEN @ + 1 ELSE @], so),
            rx, passed, ad)

\* ------------------------------------------------------------------------
\* arkCompleteStep.  fault "post": the user's ProcessStep fails;
\* fault "controller": SUNAdaptController_UpdateH fails.
\* ------------------------------------------------------------------------
\* an end of step that is never reset to tstop
StepEndTime_NoReset(a) == a.tn + a.h

\* tcur at the end of the step: tn + h, reset to tstop when within roundoff
StepEndTime(a) ==
  LET t1 == a.tn + a.h
  IN  IF a.tstopset /\ WithinRoundoff(t1 - a.tstop, t1, a.h) THEN a.tstop ELSE t1

\* arkInterpUpdate(ark_mem, interp, tcur), called when there is an
\* interpolation module: the module saves the yn it finds (iyn)
arkInterpUpdate(a) == IF a.interp THEN [a EXCEPT !.iyn = a.yn] ELSE a

\* a step completion that overwrites yn before it updates the interpolation
\* module
arkCompleteStep_OverwriteFirst(a, fault) ==
  R("ARK_SUCCESS",
    arkInterpUpdate([a EXCEPT !.tcur = StepEndTime(a), !.yn = a.ycur,
                              !.fn_is_current = FALSE, !.nst = @ + 1, !.chist = @ + 1,
                              !.hold = a.h, !.tn = StepEndTime(a),
                              !.hprime = MulEta(a.h, a.eta), !.etamax = a.growth,
                              !.initsetup = FALSE]))

arkCompleteStep(a, fault) ==
  LET a1 == [a EXCEPT !.tcur = StepEndTime(a)]
      a2 == [arkInterpUpdate(a1) EXCEPT !.yn = a.ycur, !.fn_is_current = FALSE]
      a3 == [a2 EXCEPT !.nst = @ + 1, !.chist = @ + 1, !.hold = a.h, !.tn = a1.tcur,
                       !.hprime = MulEta(a.h, a.eta), !.etamax = a.growth,
                       !.initsetup = FALSE]
  IN  IF fault = "post" THEN R("ARK_POSTPROCESS_STEP_FAIL", a1)
      ELSE IF fault = "controller" THEN R("ARK_CONTROLLER_ERR", a2)
      ELSE R("ARK_SUCCESS", a3)

\* ------------------------------------------------------------------------
\* The checks of ARKodeEvolve after a completed step (lines 1025-1143)
\* ------------------------------------------------------------------------
\* post-step checks that test tout before tstop
PostTimes_ToutFirst(a, tout, itask, tr, fault) ==
  LET a1 == TstopAdjust(a)
      nx == [a1 EXCEPT !.next_h = a1.hprime]
  IN  IF itask = "ARK_NORMAL" /\ (a.tcur - tout) * a.h >= 0 THEN ToutReturn(nx, tout)
      ELSE IF TstopReached(a, tout) THEN TstopReturn(a)
      ELSE IF itask = "ARK_ONE_STEP" THEN TcurReturn("ARK_SUCCESS", nx)
      ELSE S("none", a1, tr)

\* tstop, tout and one-step checks; ret = "none": go on with the next step
PostTimes(a, tout, itask, tr, fault) ==
  LET a1 == TstopAdjust(a)
      dt == ARKodeGetDky(a, a.tstop, fault = "interp")
      do == ARKodeGetDky(a1, tout, fault = "interp")
      nx == [a1 EXCEPT !.next_h = a1.hprime]
  IN  IF TstopReached(a, tout) THEN
        IF a.tstopinterp /\ a.interp /\ dt # "ARK_SUCCESS"
          THEN S(dt, a, tr)
          ELSE TstopReturn(a)
      ELSE IF itask = "ARK_NORMAL" /\ (a.tcur - tout) * a.h >= 0 THEN
        IF a.interp /\ do # "ARK_SUCCESS"
          THEN S(do, a1, tr)
          ELSE ToutReturn(nx, tout)
      ELSE IF itask = "ARK_ONE_STEP" THEN TcurReturn("ARK_SUCCESS", nx)
      ELSE S("none", a1, tr)

\* lines 1026-1143: rc is the result of the root check
PostRoots(rc, tout, itask, tr, fault) ==
  IF rc.flag = "RTFOUND"
    THEN S("ARK_ROOT_RETURN",
           [rc.ark EXCEPT !.irfnd = 1, !.tretlast = rc.ark.tlo], rc.ark.tlo)
  ELSE IF rc.flag = "ARK_RTFUNC_FAIL" THEN S("ARK_RTFUNC_FAIL", rc.ark, tr)
  ELSE PostTimes(rc.ark, tout, itask, tr, fault)

\* root check, then the time checks
PostStepChecks(a, tout, itask, tr, fault) ==
  PostRoots(IF a.nrtfn > 0 THEN arkRootCheck3(a, fault = "g") ELSE R("ARK_SUCCESS", a),
            tout, itask, tr, fault)

\* ------------------------------------------------------------------------
\* The top of the step loop (lines 774-893)
\* ------------------------------------------------------------------------
\* a work check that lets one step too many through
TooManySteps_OneLate(a, nstloc) == a.mxstep > 0 /\ nstloc > a.mxstep

\* "Check for too many steps"
TooManySteps(a, nstloc) == a.mxstep > 0 /\ nstloc >= a.mxstep

\* "Update parameter for upcoming step size", with the fixed-step patch
NextStepSize(a) ==
  LET h1 == IF a.hprime # a.h THEN MulEta(a.h, a.eta) ELSE a.h
      a1 == [a EXCEPT !.h = h1, !.next_h = IF a.hprime # a.h THEN h1 ELSE @]
  IN  IF a.fixedstep
        THEN [a1 EXCEPT !.next_h = a.hin,
                        !.h = IF a.tstopset /\ (a.tcur + a.hin - a.tstop) * a.hin > 0
                                THEN OneMinus4U(a.tstop - a.tcur) ELSE a.hin]
        ELSE a1

\* the locals at the looping point for step attempts
ResetLoc(l) ==
  [l EXCEPT !.dsm = 0, !.kflag = "ARK_SUCCESS", !.stepk = "none", !.attempts = 0, !.ncf = 0,
            !.nef = 0, !.constrfails = 0, !.relax_fails = 0, !.nflag = "FIRST_CALL"]

\* ------------------------------------------------------------------------
\* Actions: the phases of one ARKodeEvolve call
\* ------------------------------------------------------------------------
\* the stop conditions that hold at a stop check made in state a, whose root
\* tests ended with roots: a root was found (root), y(tn) withheld by a root
\* is due in ARK_ONE_STEP mode (tn), tcur is at tstop within roundoff (tstop),
\* tout is at or beyond tstop (beyond), tout is reached in ARK_NORMAL mode (tout)
NoChk ==
  [root |-> FALSE, tn |-> FALSE, tstop |-> FALSE, beyond |-> FALSE, tout |-> FALSE]

Conditions(a, tout, itask, roots) ==
  [ root   |-> roots = "ARK_ROOT_RETURN",
    tn     |-> roots = "ARK_SUCCESS",
    tstop  |-> a.tstopset /\ WithinRoundoff(a.tcur - a.tstop, a.tcur, a.h),
    beyond |-> \/ (tout - a.tstop) * a.h >= 0
               \/ WithinRoundoff(tout - a.tstop, a.tcur, a.h),
    tout   |-> itask = "ARK_NORMAL" /\ (a.tcur - tout) * a.h >= 0 ]

\* the history after a return with value code, issued at the place named by
\* from, where the stop conditions chk held
Returned(o, code, from, chk) ==
  [o EXCEPT !.from = from, !.chk = chk,
            !.nroot = IF code = "ARK_ROOT_RETURN" THEN @ + 1 ELSE @,
            !.ntstop = IF code = "ARK_TSTOP_RETURN" THEN @ + 1 ELSE @]

\* the history after a failed step: the flag raised and the attempts made
Failed(o, flag, from, attempts) ==
  [Returned(o, flag, from, NoChk) EXCEPT !.raised = flag, !.attempts = attempts]

\* the history after the attempt loop was left with the locals l
Left(o, l) ==
  [o EXCEPT !.cnt = [ncf |-> l.ncf, nef |-> l.nef, stepk |-> l.stepk,
                     adaptfail |-> l.adaptfail]]

\* the history after h = a.h * a.eta was computed at the place named by at
Scaled(o, at, a) ==
  [o EXCEPT !.scale = [at |-> at, h |-> a.h, eta |-> a.eta, etamax |-> a.etamax]]

\* ARKodeEvolve returns r.ret.  The locals of the call end with it: of l only
\* the arguments and the count of steps are kept, for the record.
Finish(r, l, o) ==
  /\ ark' = r.ark
  /\ tret' = r.tret
  /\ ret' = r.ret
  /\ pc' = "idle"
  /\ loc' = [InitLoc EXCEPT !.tout = l.tout, !.itask = l.itask, !.nstloc = l.nstloc]
  /\ obs' = o

\* lines 737-745: st is the outcome of the stop tests made on entry from
\* the state a, where the root tests gave rt
Entered(a, st, l, o, rt) ==
  IF st.ret # "none"
    THEN Finish(st, l, Returned(o, st.ret, "entry", Conditions(a, l.tout, l.itask, rt)))
    ELSE /\ ark' = st.ark
         /\ loc' = l
         /\ tret' = st.tret
         /\ pc' = "top"
         /\ obs' = o
         /\ UNCHANGED ret

\* lines 725-745: su is the outcome of the initial setup
SetUp(su, tr0, l, o, fault) ==
  IF su.flag # "ARK_SUCCESS"
    THEN Finish(S(su.flag, su.ark, tr0), l, Returned(o, su.flag, "setup", NoChk))
    ELSE Entered(su.ark,
                 IF ~su.ark.initsetup
                   THEN arkStopTests(su.ark, l.tout, l.itask, tr0, fault)
                   ELSE S("none", su.ark, tr0),
                 l, o,
                 IF su.ark.nrtfn > 0 THEN StopRoots(su.ark, l.itask, tr0, fault).ret
                 ELSE "none")

\* arkLsInitialize (arkode_ls.c) for a matrix-based interface: the
\* allocation of savedJ and SUNLinSolInitialize succeed
arkLsInitialize(m) ==
  [m EXCEPT !.savedJ = IF @.state = "NULL" THEN NoJac("alloc") ELSE @,
            !.nje = 0, !.nstlj = 0, !.last_flag = "ARKLS_SUCCESS"]

\* lines 654-771: input processing, initial setup, stop tests on entry
Evolve ==
  /\ pc = "idle"
  /\ obs.calls < MaxCalls
  /\ UNCHANGED <<env, tol, root_mem, arkls_massmem>>
  /\ \E tout \in Touts, itask \in Tasks,
        fault \in May(env, {"efun", "rhs", "g", "interp"}) :
       LET a0 == IF ark.nrtfn > 0
                   THEN [ark EXCEPT !.toutc = IF itask = "ARK_NORMAL" THEN tout ELSE @,
                                    !.taskc = itask]
                   ELSE ark
       IN  /\ obs.calls > 0 => itask = loc.itask
           /\ SetUp(IF ark.initsetup
                      THEN arkInitialSetup([a0 EXCEPT !.tretlast = a0.tcur], tout, fault)
                      ELSE R("ARK_SUCCESS", a0),
                    IF ark.initsetup THEN ark.tcur ELSE tret,
                    [InitLoc EXCEPT !.tout = tout, !.itask = itask],
                    [obs EXCEPT !.calls = @ + 1, !.raised = "none", !.attempts = 0,
                                !.chk = NoChk,
                                !.cnt = [ncf |-> 0, nef |-> 0, stepk |-> "none",
                                         adaptfail |-> FALSE],
                                !.wfail = /\ ark.initsetup /\ fault = "efun"
                                          /\ ~BadSetupInputs(ark, tout),
                                !.rst = NoReset,
                                !.prev = [ret |-> ret, tout |-> loc.tout]],
                    fault)

\* ARKodeEvolve of a stepper without linear solver interface
EvolveCall == Evolve /\ UNCHANGED arkls_mem

\* a warning that is logged however often the condition has occurred
HnilWarns_Always(a) == TRUE

\* line 853: the warning is logged
HnilWarns(a) == a.nhnil <= a.mxhnil

\* line 858: the notice that no more warnings will be issued is logged
HnilDone(a) == a.nhnil = a.mxhnil

\* lines 850-852; hnil says that tcur + h == tcur in floating point
HnilCounted(a, hnil) == IF hnil THEN [a EXCEPT !.nhnil = @ + 1] ELSE a

\* lines 853-862: what arkProcessError is given at the warning level, with
\* nhnil counted in a; obs.hnil counts the warnings and the notices logged
HnilLogged(o, a, hnil) ==
  IF ~hnil THEN o
  ELSE [o EXCEPT !.hnil = [warn |-> @.warn + (IF HnilWarns(a) THEN 1 ELSE 0),
                           done |-> @.done + (IF HnilDone(a) THEN 1 ELSE 0)]]

\* lines 774-893: weights, work and accuracy checks, next step size
StepTop ==
  /\ pc = "top"
  /\ ark.nst < MaxSteps
  /\ UNCHANGED <<env, tol, root_mem, arkls_mem, arkls_massmem>>
  /\ \E fault \in May(env, {"efun", "acc"}),
        hnil \in IF "hnil" \in env THEN BOOLEAN ELSE {FALSE} :
       LET a0 == [ark EXCEPT !.next_h = ark.h]
           a1 == [NextStepSize(a0) EXCEPT !.last_kflag = "ARK_SUCCESS"]
           rt(code) == Finish(TcurReturn(code, a0), loc, Returned(obs, code, "top", NoChk))
       IN  IF ~a0.initsetup /\ fault = "efun"
             THEN Finish(TcurReturn("ARK_ILL_INPUT", a0), loc,
                         Returned([obs EXCEPT !.wfail = TRUE], "ARK_ILL_INPUT",
                                  "top", NoChk))
           ELSE IF TooManySteps(a0, loc.nstloc) THEN rt("ARK_TOO_MUCH_WORK")
           ELSE IF fault = "acc" /\ ~a0.fixedstep THEN rt("ARK_TOO_MUCH_ACC")
           ELSE /\ ark' = HnilCounted(a1, hnil)
                /\ loc' = ResetLoc(loc)
                /\ pc' = "attempt"
                /\ obs' = HnilLogged(IF ark.hprime # ark.h THEN Scaled(obs, "top", ark)
                                     ELSE obs,
                                     HnilCounted(ark, hnil), hnil)
                /\ UNCHANGED <<tret, ret>>

\* lines 1026-1143: the step completed in the state cs with the locals l1
\* and the history o1; pk is the outcome of the checks made after it
StepChecked(cs, pk, l1, o1, rt) ==
  IF pk.ret # "none"
    THEN Finish(pk, l1, Returned(o1, pk.ret, "post",
                                 Conditions(cs.ark, loc.tout, loc.itask, rt)))
    ELSE /\ ark' = pk.ark
         /\ loc' = ResetLoc(l1)
         /\ tret' = pk.tret
         /\ pc' = "top"
         /\ obs' = o1
         /\ UNCHANGED ret

\* lines 1015-1143: cs is the outcome of arkCompleteStep, or the flag the
\* attempt loop was left with
StepCompleted(x, cs, fault) ==
  IF cs.flag # "ARK_SUCCESS"
    THEN Finish(TcurReturn(arkHandleFailure(cs.flag), cs.ark), x.loc,
                Failed(Left(obs, x.loc), cs.flag, "step", x.loc.attempts))
    ELSE StepChecked(cs,
                     PostStepChecks(cs.ark, loc.tout, loc.itask, tret, fault),
                     [x.loc EXCEPT !.nstloc = @ + 1],
                     [Left(obs, x.loc) EXCEPT
                        !.good = [t |-> cs.ark.tcur, y |-> x.ark.ycur, n |-> @.n + 1,
                                  conv |-> x.loc.ncf = loc.ncf,
                                  cons |-> x.loc.constrfails = loc.constrfails]],
                     IF cs.ark.nrtfn > 0
                        /\ arkRootCheck3(cs.ark, fault = "g").flag = "RTFOUND"
                       THEN "ARK_ROOT_RETURN" ELSE "none")

\* lines 1009-1143: the attempt loop was left with the flag and state of x;
\* step completion or failure handling, then the stop checks
EndStep(x, fault) ==
  StepCompleted(x,
                IF x.flag = "ARK_SUCCESS" THEN arkCompleteStep(x.ark, fault)
                ELSE R(x.flag, x.ark),
                fault)

\* x is the outcome of one pass through the loop over step attempts
AttemptDone(x, fault) ==
  IF x.exit = "retry"
    THEN /\ ark' = x.ark
         /\ loc' = x.loc
         /\ obs' = Scaled(obs, "retry", [x.ark EXCEPT !.h = ark.h])
         /\ UNCHANGED <<pc, tret, ret>>
  ELSE IF x.exit = "return"
    THEN Finish(S(x.flag, x.ark, tret), x.loc,
                Failed(Left(obs, x.loc), x.flag, "attempt", x.loc.attempts))
  ELSE EndStep(x, fault)

\* lines 894-1143: one pass through the loop over step attempts and, when the
\* loop is left, the rest of the step.  The locals reassigned at the looping
\* point are reset as soon as the step is completed.  sos holds what the
\* stepper may return.
TryStep(sos) ==
  /\ pc = "attempt"
  /\ UNCHANGED <<env, tol, root_mem, arkls_massmem>>
  /\ \E so \in sos,
        rx \in IF "relax" \in env THEN RelaxOutcomes ELSE {"ok"},
        passed \in IF "constr" \in env THEN BOOLEAN ELSE {TRUE},
        fault \in May(env, {"post", "controller", "g", "interp"}) :
     \E ad \in AdaptOutcomes(so.dsm, env) :
       /\ so.kflag = "ARK_RETRY_STEP" => loc.kflag # "ARK_RETRY_STEP"
       /\ AttemptDone(Attempt(ark, loc, so, rx, passed, ad), fault)

StepAttempt == TryStep(StepOutcomes(env)) /\ UNCHANGED arkls_mem

Next == EvolveCall \/ StepTop \/ StepAttempt

Spec == Init /\ [][Next]_vars

\* ------------------------------------------------------------------------
\* ARKodeReset and re-initialization (arkode.c: ARKodeReset, arkInit)
\* ------------------------------------------------------------------------
\* the times at which the user program resets the integrator
ResetTimes == {5}

\* largest number of resets and re-initializations in a run
MaxResets == 1

\* an arkInit that also lets a re-initialization keep etamax
arkInit_KeepStepHistory(a, t0, y0, init_type, fault) ==
  R("ARK_SUCCESS",
    [a EXCEPT !.tcur = t0, !.tn = t0, !.yn = y0, !.fn_is_current = FALSE,
              !.tstopset = FALSE, !.initsetup = TRUE, !.init_type = init_type])

\* lines 1801-1849: the initializations of a (re-)initialization call;
\* fault "controller": SUNAdaptController_Reset fails
arkInitFirst(a, fault) ==
  IF fault = "controller"
    THEN R("ARK_CONTROLLER_ERR",
           [a EXCEPT !.nst = 0, !.nhnil = 0, !.ncfn = 0, !.h0u = 0, !.hold = 0, !.next_h = 0])
    ELSE R("ARK_SUCCESS",
           [a EXCEPT !.nst = 0, !.nhnil = 0, !.ncfn = 0, !.h0u = 0, !.hold = 0, !.next_h = 0,
                     !.chist = 0, !.initialized = FALSE, !.initsetup = TRUE,
                     !.init_type = "FIRST_INIT"])

\* arkInit once the vectors are allocated (lines 1738-1742, 1788-1856)
arkInit(a, t0, y0, init_type, fault) ==
  IF init_type = "FIRST_INIT" \/ ~a.initialized
    THEN arkInitFirst([a EXCEPT !.tcur = t0, !.tn = t0, !.yn = y0,
                                !.fn_is_current = FALSE, !.tstopset = FALSE],
                      fault)
    ELSE R("ARK_SUCCESS",
           [a EXCEPT !.tcur = t0, !.tn = t0, !.yn = y0, !.fn_is_current = FALSE,
                     !.tstopset = FALSE, !.initsetup = TRUE, !.init_type = init_type])

\* x is the outcome of arkInit in a call of the given kind
InitDone(x, kind, tR) ==
  /\ ark' = x.ark
  /\ obs' = [obs EXCEPT !.nrst = @ + 1,
                         !.rst = [kind |-> kind, tR |-> tR, ret |-> x.flag,
                                  before |-> ark]]
  /\ UNCHANGED <<env, loc, pc, tret, ret, tol, root_mem, arkls_mem, arkls_massmem>>

\* ARKodeReset(arkode_mem, tR, yR), the stepper having no step_reset
ARKodeReset ==
  /\ pc = "idle"
  /\ obs.nrst < MaxResets
  /\ \E tR \in ResetTimes, fault \in May(env, {"controller"}) :
       InitDone(arkInit(ark, tR, <<"yR">>, "RESET_INIT", fault), "reset", tR)

\* a full re-initialization: arkInit(ark_mem, t0, y0, FIRST_INIT)
ReInit ==
  /\ pc = "idle"
  /\ obs.nrst < MaxResets
  /\ \E tR \in ResetTimes, fault \in May(env, {"controller"}) :
       InitDone(arkInit(ark, tR, <<"yR">>, "FIRST_INIT", fault), "reinit", tR)

\* the user programs in which the integrator is reset
ResetOptions ==
  { DefaultOptions,
    [DefaultOptions EXCEPT !.faults = {"post", "controller"}],
    [DefaultOptions EXCEPT !.maxncf = 1, !.faults = {"nonconv"}] }

InitReset == Init /\ \E o \in ResetOptions : ark = InitArk(o) /\ env = o.faults

NextReset == EvolveCall \/ StepTop \/ StepAttempt \/ ARKodeReset \/ ReInit

SpecReset == InitReset /\ [][NextReset]_vars

\* ------------------------------------------------------------------------
\* Error weights (arkode.c: ARKodeSStolerances, ARKodeSVtolerances,
\* arkEwtSetSS, arkEwtSetSV).  Tolerances and vector components are
\* integers; a weight 1/x is kept as the fraction [num |-> 1, den |-> x].
\* ------------------------------------------------------------------------
\* the indices of the components of the integrator's vectors
Components == 1..2

\* largest tolerance passed to the tolerance functions
MaxTol == 1

\* largest magnitude of a solution component
MaxY == 1

\* the N_Vector operations used by the weight functions, as functions of
\* their input vectors that give the output vector
N_VCopy(x) == x

N_VAbs(x) == [i \in DOMAIN x |-> SUNRabs(x[i])]

N_VScale(c, x) == [i \in DOMAIN x |-> c * x[i]]

N_VAddConst(x, b) == [i \in DOMAIN x |-> x[i] + b]

N_VLinearSum(a, x, b, y) == [i \in DOMAIN x |-> a * x[i] + b * y[i]]

N_VMin(x) == CHOOSE m \in {x[i] : i \in DOMAIN x} : \A i \in DOMAIN x : m <= x[i]

N_VInv(x) == [i \in DOMAIN x |-> [num |-> 1, den |-> x[i]]]

\* lines 2937-2942: tv is tempv1 = reltol*|ycur| + abstol
EwtInvert(t, tv) ==
  IF t.atolmin0 /\ N_VMin(tv) <= 0
    THEN [retval |-> -1, ewt |-> t.ewt]
    ELSE [retval |-> 0, ewt |-> N_VInv(tv)]

arkEwtSetSS(t, ycur) ==
  EwtInvert(t, N_VAddConst(N_VScale(t.reltol, N_VAbs(ycur)), t.Sabstol))

arkEwtSetSV(t, ycur) ==
  EwtInvert(t, N_VLinearSum(t.reltol, N_VAbs(ycur), 1, t.Vabstol))

\* arkFreeVectors, called by arkAllocVec when N_VClone fails (line 3417)
\* arkFreeVec on each vector of the list, which does not hold VRabstol; a
\* freed vector is taken off lrw
arkFreeVectors(t) ==
  [t EXCEPT !.vectors = FALSE, !.ewt = <<>>, !.Vabstol = <<>>,
            !.rwt = IF t.rwt_is_ewt THEN @ ELSE FALSE,
            !.lrw = @ - (IF t.vectors THEN Cardinality(InitVectors) ELSE 0)
                      - (IF ~t.rwt_is_ewt /\ t.rwt THEN 1 ELSE 0)
                      - (IF t.Vabstol # <<>> THEN 1 ELSE 0)]

\* the main integrator is not involved
IntegratorUnchanged ==
  UNCHANGED <<env, ark, loc, pc, tret, ret, obs, arkls_mem, arkls_massmem>>

ARKodeSStolerances ==
  /\ tol.mem /\ tol.vectors
  /\ \E reltol \in -1..MaxTol, abstol \in -1..MaxTol :
       tol' = IF reltol < 0 \/ abstol < 0
                THEN [tol EXCEPT !.set = SetRet("ARK_ILL_INPUT", "input")]
              ELSE [tol EXCEPT !.atolmin0 = (abstol = 0), !.reltol = reltol,
                               !.Sabstol = abstol, !.itol = "SS",
                               !.user_efun = FALSE,
                               !.call = NoEwtCall,
                               !.set = SetRet("ARK_SUCCESS", "none")]
  /\ IntegratorUnchanged /\ UNCHANGED root_mem

\* allocated is the outcome of arkAllocVec, which frees the integrator's
\* vectors when it fails (line 3417)
ARKodeSVtolerances ==
  /\ tol.mem /\ tol.vectors
  /\ \E reltol \in -1..MaxTol, abstol \in [Components -> -1..MaxTol],
        allocated \in IF tol.VabstolMallocDone THEN {TRUE} ELSE BOOLEAN :
       tol' = IF reltol < 0 \/ N_VMin(abstol) < 0
                THEN [tol EXCEPT !.set = SetRet("ARK_ILL_INPUT", "input")]
              ELSE IF ~tol.VabstolMallocDone /\ ~allocated
                THEN arkFreeVectors([tol EXCEPT !.atolmin0 = (N_VMin(abstol) = 0),
                                                !.call = NoEwtCall,
                                                !.set = SetRet("ARK_ILL_INPUT", "alloc")])
              ELSE [tol EXCEPT !.atolmin0 = (N_VMin(abstol) = 0),
                               !.Vabstol = N_VScale(1, abstol),
                               !.VabstolMallocDone = TRUE,
                               !.lrw = IF tol.VabstolMallocDone THEN @ ELSE @ + 1,
                               !.reltol = reltol, !.itol = "SV",
                               !.user_efun = FALSE,
                               !.call = NoEwtCall,
                               !.set = SetRet("ARK_SUCCESS", "none")]
  /\ IntegratorUnchanged /\ UNCHANGED root_mem

\* r is the outcome of efun(y, ewt, e_data)
EwtStored(t, y, r) ==
  [t EXCEPT !.ewt = r.ewt, !.call = [made |-> TRUE, y |-> y, retval |-> r.retval]]

\* lines 779 and 2022: the driver calls efun on the solution y
EwtSet ==
  /\ tol.mem /\ tol.vectors /\ tol.itol # "none"
  /\ \E y \in [Components -> -MaxY..MaxY] :
       tol' = EwtStored(tol, y, IF tol.itol = "SS" THEN arkEwtSetSS(tol, y)
                                ELSE arkEwtSetSV(tol, y))
  /\ IntegratorUnchanged /\ UNCHANGED root_mem

InitEwt == Init /\ ark = InitArk(DefaultOptions) /\ env = DefaultOptions.faults

NextEwt == ARKodeSStolerances \/ ARKodeSVtolerances \/ EwtSet

SpecEwt == InitEwt /\ [][NextEwt]_vars

\* ------------------------------------------------------------------------
\* Ownership of the integrator's vectors (arkode.c: ARKodeResStolerance,
\* ARKodeResVtolerance, arkAllocVec, arkFreeVectors, ARKodeFree), for a
\* stepper that supports mass matrices.  A tolerance function called after
\* arkFreeVectors has run dereferences ark_mem->ewt = NULL; such calls are
\* not made.
\* ------------------------------------------------------------------------
\* lines 471-481: rwt gets storage of its own unless it has it already;
\* ok is the outcome of N_VClone in arkAllocVec
AllocRwt(t, ok) ==
  IF ~t.rwt_is_ewt THEN t
  ELSE IF ok THEN [t EXCEPT !.rwt = TRUE, !.rwt_is_ewt = FALSE, !.lrw = @ + 1]
  ELSE arkFreeVectors([t EXCEPT !.rwt = FALSE,
                                !.set = SetRet("ARK_ILL_INPUT", "alloc")])

\* the part of ARKodeResStolerance after the allocation of rwt
ResSStore(t, rabstol) ==
  IF ~t.vectors THEN t
  ELSE [t EXCEPT !.SRabstol = rabstol, !.ritol = "SS", !.user_efun = FALSE,
                 !.set = SetRet("ARK_SUCCESS", "none")]

\* the part of ARKodeResVtolerance after the allocation of rwt (lines
\* 561-580); ok is the outcome of N_VClone for VRabstol
ResVStore(t, rabstol, ok) ==
  IF ~t.vectors THEN t
  ELSE IF ~t.VRabstolMallocDone /\ ~ok
    THEN arkFreeVectors([t EXCEPT !.set = SetRet("ARK_ILL_INPUT", "alloc")])
  ELSE [t EXCEPT !.VRabstol = N_VScale(1, rabstol),
                 !.VRabstolMallocDone = TRUE,
                 !.lrw = IF t.VRabstolMallocDone THEN @ ELSE @ + 1,
                 !.ritol = "SV", !.user_efun = FALSE,
                 !.set = SetRet("ARK_SUCCESS", "none")]

ARKodeResStolerance ==
  /\ tol.mem /\ tol.vectors
  /\ \E rabstol \in -1..MaxTol, ok \in IF tol.rwt_is_ewt THEN BOOLEAN ELSE {TRUE} :
       tol' = IF rabstol < 0
                THEN [tol EXCEPT !.set = SetRet("ARK_ILL_INPUT", "input")]
              ELSE ResSStore(AllocRwt([tol EXCEPT !.Ratolmin0 = (rabstol = 0)], ok),
                             rabstol)
  /\ IntegratorUnchanged /\ UNCHANGED root_mem

ARKodeResVtolerance ==
  /\ tol.mem /\ tol.vectors
  /\ \E rabstol \in [Components -> -1..MaxTol],
        ok1 \in IF tol.rwt_is_ewt THEN BOOLEAN ELSE {TRUE},
        ok2 \in IF tol.VRabstolMallocDone THEN {TRUE} ELSE BOOLEAN :
       tol' = IF N_VMin(rabstol) < 0
                THEN [tol EXCEPT !.set = SetRet("ARK_ILL_INPUT", "input")]
              ELSE ResVStore(AllocRwt([tol EXCEPT !.Ratolmin0 = (N_VMin(rabstol) = 0)],
                                      ok1),
                             rabstol, ok2)
  /\ IntegratorUnchanged /\ UNCHANGED root_mem

\* ARKodeFree: arkFreeVectors, arkRootFree when root_mem is there, and
\* free(*arkode_mem)
ARKodeFree ==
  /\ tol.mem
  /\ tol' = [arkFreeVectors(tol) EXCEPT !.mem = FALSE]
  /\ root_mem' = IF root_mem.mem
                   THEN [root_mem EXCEPT !.mem = FALSE, !.size = NoArrays, !.lrw = 0]
                   ELSE root_mem
  /\ IntegratorUnchanged

NextMem ==
  ARKodeSVtolerances \/ ARKodeResStolerance \/ ARKodeResVtolerance \/ ARKodeFree

SpecMem == InitEwt /\ [][NextMem]_vars

\* ------------------------------------------------------------------------
\* The linear solver interface (arkode_ls.c: arkLsSetup, arkLsLinSys,
\* ARKodeGetJac) of an implicit stepper with a matrix A, a direct linear
\* solver and no mass matrix.  The SUNMatrix operations, step_getgammas and
\* SUNLinSolSetup succeed.  The stepper calls arkLsSetup once in every step
\* attempt, with tpred = tcur; dgamma_fail is told apart only in the context
\* ARK_FAIL_BAD_J, the one in which arkLsSetup looks at it.
\* ------------------------------------------------------------------------
\* the convergence-failure context the stepper passes to arkLsSetup
ConvFails == {"ARK_NO_FAILURES", "ARK_FAIL_BAD_J", "ARK_FAIL_OTHER"}

\* the sign of a return value and the interface it leaves
LsR(retval, m) == [retval |-> retval, mem |-> m]

\* a test that lets the Jacobian age one step more
JacobianBad_OneLate(m, a, convfail, dgamma_fail) ==
  \/ a.initsetup
  \/ a.nst > m.nstlj + m.msbj
  \/ (convfail = "ARK_FAIL_BAD_J" /\ ~dgamma_fail)
  \/ convfail = "ARK_FAIL_OTHER"

\* lines 3206-3209: jbad
JacobianBad(m, a, convfail, dgamma_fail) ==
  \/ a.initsetup
  \/ a.nst >= m.nstlj + m.msbj
  \/ (convfail = "ARK_FAIL_BAD_J" /\ ~dgamma_fail)
  \/ convfail = "ARK_FAIL_OTHER"

\* the Jacobian evaluated in the state a
NewJac(a) == [state |-> "J", nst |-> a.nst, t |-> a.tcur]

\* arkLsLinSys: jr is the sign of the value jac returns
arkLsLinSys(m, a, jok, jr) ==
  IF jok THEN LsR(0, [m EXCEPT !.jcur = FALSE, !.A = m.savedJ])
  ELSE IF jr # 0
    THEN LsR(jr, [m EXCEPT !.jcur = TRUE, !.A = NoJac("partial"),
                           !.last_flag = IF jr < 0 THEN "ARKLS_JACFUNC_UNRECVR"
                                         ELSE "ARKLS_JACFUNC_RECVR"])
  ELSE LsR(0, [m EXCEPT !.jcur = TRUE, !.A = NewJac(a), !.savedJ = NewJac(a)])

\* a linear system function of the user: it fills A, sets *jcur as it likes
\* (ujcur) and returns a value of sign jr
UserLinSys(m, a, jr, ujcur) ==
  LsR(jr, [m EXCEPT !.jcur = ujcur,
                    !.A = IF jr = 0 THEN NewJac(a) ELSE NoJac("partial")])

\* lines 3240-3246: the record of the last Jacobian evaluation
JacCounted(ls, a) ==
  LsR(ls.retval, IF ls.mem.jcur
                   THEN [ls.mem EXCEPT !.nje = @ + 1, !.nstlj = a.nst, !.tnlj = a.tcur]
                   ELSE ls.mem)

\* lines 3248-3295: the value returned
LsSetupReturn(ls) ==
  IF ls.retval = 0 THEN LsR(0, [ls.mem EXCEPT !.last_flag = "ARKLS_SUCCESS"])
  ELSE IF ~ls.mem.user_linsys THEN ls
  ELSE LsR(ls.retval, [ls.mem EXCEPT !.last_flag = IF ls.retval < 0
                                                     THEN "ARKLS_JACFUNC_UNRECVR"
                                                   ELSE "ARKLS_JACFUNC_RECVR"])

\* lines 3232-3238: m is the interface with jbad set
LsLinSys(m, a, jr, ujcur) ==
  IF m.user_linsys THEN UserLinSys(m, a, jr, ujcur)
  ELSE arkLsLinSys(m, a, ~m.jbad, jr)

arkLsSetup(m, a, convfail, dgamma_fail, jr, ujcur) ==
  LsSetupReturn(JacCounted(
    LsLinSys([m EXCEPT !.jbad = JacobianBad(m, a, convfail, dgamma_fail)],
             a, jr, ujcur), a))

\* mriStep_NlsLSetup (arkode_mristep_nls.c): the value the nonlinear solver
\* gets for the value retval of arkLsSetup
mriStep_NlsLSetup(retval) ==
  IF retval < 0 THEN "ARK_LSETUP_FAIL"
  ELSE IF retval > 0 THEN "CONV_FAIL"
  ELSE "ARK_SUCCESS"

\* what the stepper returns when the setup of its linear solver failed
LsStepOutcome(nls) ==
  [kflag |-> "TRY_AGAIN", nflag |-> nls, dsm |-> 0]

\* r is the outcome of arkLsSetup in the call on record
LsCalled(r, convfail, dgamma_fail, jr) ==
  LsR(r.retval,
      [r.mem EXCEPT !.call =
         [made |-> TRUE, convfail |-> convfail, dgamma_fail |-> dgamma_fail,
          jok |-> ~r.mem.jbad,
          evaluated |-> r.mem.jbad /\ ~r.mem.user_linsys,
          jr |-> IF r.mem.jbad \/ r.mem.user_linsys THEN jr ELSE 0,
          retval |-> r.retval]])

\* the output time the user program asks for
LsTout == CHOOSE t \in Touts : \A u \in Touts : u <= t

\* ARKodeEvolve(arkode_mem, LsTout, yout, &tret, ARK_ONE_STEP) of a stepper
\* with a linear solver interface, which the stepper initializes in the
\* initial setup
LsEvolveCall ==
  /\ Evolve
  /\ loc'.tout = LsTout /\ loc'.itask = "ARK_ONE_STEP"
  /\ arkls_mem' = IF ark.initsetup THEN arkLsInitialize(arkls_mem) ELSE arkls_mem

\* the step attempt whose linear solver setup had the outcome r
LsAttempt(r) ==
  /\ arkls_mem' = r.mem
  /\ TryStep(IF r.retval = 0 THEN StepOutcomes(env)
             ELSE {LsStepOutcome(mriStep_NlsLSetup(r.retval))})

LsStepAttempt ==
  \E convfail \in ConvFails :
  \E dgamma_fail \in IF convfail = "ARK_FAIL_BAD_J" THEN BOOLEAN ELSE {FALSE},
     jr \in IF "jac" \in env THEN {-1, 0, 1} ELSE {0},
     ujcur \in IF arkls_mem.user_linsys THEN BOOLEAN ELSE {FALSE} :
    LsAttempt(LsCalled(arkLsSetup(arkls_mem, ark, convfail, dgamma_fail, jr, ujcur),
                       convfail, dgamma_fail, jr))

\* ARKodeGetJac: *J = arkls_mem->savedJ
ARKodeGetJac ==
  /\ pc = "idle"
  /\ arkls_mem' = [arkls_mem EXCEPT !.shared = @ \/ arkls_mem.savedJ.state # "NULL"]
  /\ UNCHANGED <<env, ark, loc, pc, tret, ret, obs, tol, root_mem, arkls_massmem>>

\* the user programs explored with a linear solver
LsOptions ==
  { [DefaultOptions EXCEPT !.faults = {"jac"}],
    [DefaultOptions EXCEPT !.force_pass = TRUE, !.faults = {"jac"}] }

InitLs ==
  /\ \E o \in LsOptions :
       /\ InitOf(o)
       /\ \E user_linsys \in IF o.force_pass THEN {FALSE} ELSE BOOLEAN :
            arkls_mem = InitLsMem(user_linsys)
  /\ arkls_massmem = InitMassMem(FALSE)

NextLs == LsEvolveCall \/ StepTop \/ LsStepAttempt

SpecLs == InitLs /\ [][NextLs]_vars

\* the same program, which may also ask for the Jacobian between calls
NextJac == LsEvolveCall \/ StepTop \/ LsStepAttempt \/ ARKodeGetJac

SpecJac == InitLs /\ [][NextJac]_vars

\* ------------------------------------------------------------------------
\* Mass matrix setup (arkode_ls.c)
\* ------------------------------------------------------------------------
\* largest number of arkLsMassSetup calls in a run
MaxMassCalls == 4

\* the times the stepper asks a mass matrix for
MassTimes == {T0, T0 + 1}

\* what arkLsMassSetup leaves: the interface, the return value and whether
\* the mass matrix was assembled and handed to the solver's setup
MassR(retval, assembled, mm) == [retval |-> retval, assembled |-> assembled, mem |-> mm]

\* last_flag = SUNLinSolSetup(LS, M_lu)
MassLsFlag(lsret) ==
  IF lsret = 0 THEN "ARKLS_SUCCESS"
  ELSE IF lsret < 0 THEN "SUNLS_UNRECOVERABLE" ELSE "SUNLS_RECOVERABLE"

\* SUNRabs(msetuptime - t) < FUZZ_FACTOR * uround
MassSetupIsCurrent(mm, t) == SUNRabs(mm.msetuptime - t) * UroundInv < FUZZ_FACTOR

\* arkLsMassSetup(ark_mem, t, ...) of a matrix-based interface with a direct
\* linear solver and no mtsetup routine: mr is the return value of the
\* user's mass function, lsret that of SUNLinSolSetup
arkLsMassSetup(mm, t, mr, lsret) ==
  IF MassSetupIsCurrent(mm, t)
    THEN MassR(0, FALSE, [mm EXCEPT !.last_flag = "ARKLS_SUCCESS"])
  ELSE IF ~mm.time_dependent /\ mm.nmsetups > 0
    THEN MassR(0, FALSE, [mm EXCEPT !.last_flag = "ARKLS_SUCCESS"])
  ELSE IF mr < 0
    THEN MassR(-1, FALSE, [mm EXCEPT !.M = NeverSetUp, !.msetuptime = t,
                                     !.last_flag = "ARKLS_MASSFUNC_UNRECVR"])
  ELSE IF mr > 0
    THEN MassR(1, FALSE, [mm EXCEPT !.M = NeverSetUp, !.msetuptime = t,
                                    !.last_flag = "ARKLS_MASSFUNC_RECVR"])
  ELSE MassR(lsret, TRUE,
             [mm EXCEPT !.M = t, !.msetuptime = t,
                        !.M_lu = IF lsret = 0 THEN t ELSE NeverSetUp,
                        !.last_flag = MassLsFlag(lsret),
                        !.nmsetups = @ + 1])

\* the record of a call of arkLsMassSetup
MassCalled(r, t, old) ==
  [r.mem EXCEPT !.call = [made |-> TRUE, n |-> old.n + 1, t |-> t,
                          assembled |-> r.assembled, retval |-> r.retval,
                          prev |-> IF old.made THEN old.retval ELSE 0]]

\* the stepper sets the mass matrix up for time t
MassSetup ==
  /\ arkls_massmem.call.n < MaxMassCalls
  /\ \E t \in MassTimes, mr \in {-1, 0, 1}, lsret \in {-1, 0, 1} :
       arkls_massmem' = MassCalled(arkLsMassSetup(arkls_massmem, t, mr, lsret),
                                   t, arkls_massmem.call)
  /\ UNCHANGED <<env, ark, loc, pc, tret, ret, obs, tol, root_mem, arkls_mem>>

\* arkLsMassInitialize: the counters are reset and the solver initialized
MassInitialize ==
  /\ arkls_massmem' = [arkls_massmem EXCEPT !.nmsetups = 0,
                                            !.msetuptime = NeverSetUp,
                                            !.last_flag = "ARKLS_SUCCESS"]
  /\ UNCHANGED <<env, ark, loc, pc, tret, ret, obs, tol, root_mem, arkls_mem>>

\* a stepper with a mass matrix that depends on time or does not
InitMass ==
  /\ InitOf(DefaultOptions)
  /\ arkls_mem = InitLsMem(FALSE)
  /\ \E time_dep \in BOOLEAN : arkls_massmem = InitMassMem(time_dep)

NextMass == MassSetup \/ MassInitialize

SpecMass == InitMass /\ [][NextMass]_vars

\* ------------------------------------------------------------------------
\* Linear solves (arkode_ls.c)
\* ------------------------------------------------------------------------
\* largest number of solves of either system in a run
MaxSolves == 2

\* the return values of SUNLinSolSolve that arkLsSolve and arkLsMassSolve
\* name, and three more error codes of the library
SolverCodes ==
  { "SUN_SUCCESS", "SUNLS_RES_REDUCED", "SUNLS_CONV_FAIL",
    "SUNLS_ATIMES_FAIL_REC", "SUNLS_PSOLVE_FAIL_REC", "SUNLS_PACKAGE_FAIL_REC",
    "SUNLS_QRFACT_FAIL", "SUNLS_LUFACT_FAIL", "SUN_ERR_ARG_CORRUPT",
    "SUN_ERR_ARG_INCOMPATIBLE", "SUN_ERR_MEM_FAIL", "SUNLS_GS_FAIL",
    "SUNLS_QRSOL_FAIL", "SUN_ERR_EXT_FAIL", "SUNLS_ATIMES_FAIL_UNREC",
    "SUNLS_PSOLVE_FAIL_UNREC",
    "SUN_ERR_NOT_IMPLEMENTED", "SUN_ERR_ARG_OUTOFRANGE", "SUN_ERR_MALLOC_FAIL" }

\* the cases of both switches that return 1
SolveRecoverable ==
  { "SUNLS_CONV_FAIL", "SUNLS_ATIMES_FAIL_REC", "SUNLS_PSOLVE_FAIL_REC",
    "SUNLS_PACKAGE_FAIL_REC", "SUNLS_QRFACT_FAIL", "SUNLS_LUFACT_FAIL" }

\* the cases of both switches that return -1
SolveUnrecoverable ==
  { "SUN_ERR_ARG_CORRUPT", "SUN_ERR_ARG_INCOMPATIBLE", "SUN_ERR_MEM_FAIL",
    "SUNLS_GS_FAIL", "SUNLS_QRSOL_FAIL", "SUN_ERR_EXT_FAIL",
    "SUNLS_ATIMES_FAIL_UNREC", "SUNLS_PSOLVE_FAIL_UNREC" }

\* the switch at the end of arkLsSolve; a value without a case leaves the
\* switch and reaches the final return (0)
LsSolveReturn(code, mnewt) ==
  IF code = "SUN_SUCCESS" THEN 0
  ELSE IF code = "SUNLS_RES_REDUCED" THEN (IF mnewt = 0 THEN 0 ELSE 1)
  ELSE IF code \in SolveRecoverable THEN 1
  ELSE IF code \in SolveUnrecoverable THEN -1
  ELSE 0

\* the switch at the end of arkLsMassSolve
MassSolveReturn(code) ==
  IF code = "SUN_SUCCESS" THEN 0
  ELSE IF code \in SolveRecoverable \cup {"SUNLS_RES_REDUCED"} THEN 1
  ELSE IF code \in SolveUnrecoverable THEN -1
  ELSE 0

\* the record of a solve
Solved(old, code, mnewt, retval) ==
  [made |-> TRUE, n |-> old.n + 1, code |-> code, mnewt |-> mnewt, retval |-> retval]

\* arkLsSolve with a direct solver: zg tells whether SUNLinSolSetZeroGuess
\* succeeded, code is the return value of SUNLinSolSolve, gam tells whether
\* step_getgammas succeeded
arkLsSolve(m, zg, code, mnewt, gam) ==
  IF ~zg THEN [m EXCEPT !.solve = Solved(@, "none", mnewt, -1)]
  ELSE IF ~gam
    THEN [m EXCEPT !.last_flag = "ARK_MEM_NULL",
                   !.solve = Solved(@, code, mnewt, -21)]
  ELSE [m EXCEPT !.ncfl = IF code # "SUN_SUCCESS" THEN @ + 1 ELSE @,
                 !.last_flag = code,
                 !.solve = Solved(@, code, mnewt, LsSolveReturn(code, mnewt))]

\* arkLsMassSolve with a direct solver
arkLsMassSolve(mm, zg, code) ==
  IF ~zg THEN [mm EXCEPT !.solve = Solved(@, "none", 0, -1)]
  ELSE [mm EXCEPT !.nmsolves = @ + 1,
                  !.ncfl = IF code # "SUN_SUCCESS" THEN @ + 1 ELSE @,
                  !.last_flag = code,
                  !.solve = Solved(@, code, 0, MassSolveReturn(code))]

\* the nonlinear solver asks for the solution of the Newton system
LsSolve ==
  /\ arkls_mem.solve.n < MaxSolves
  /\ \E zg \in BOOLEAN, code \in SolverCodes, mnewt \in {0, 1}, gam \in BOOLEAN :
       arkls_mem' = arkLsSolve(arkls_mem, zg, code, mnewt, gam)
  /\ UNCHANGED <<env, ark, loc, pc, tret, ret, obs, tol, root_mem, arkls_massmem>>

\* the stepper asks for the solution of a mass matrix system
MassSolve ==
  /\ arkls_massmem.solve.n < MaxSolves
  /\ \E zg \in BOOLEAN, code \in SolverCodes :
       arkls_massmem' = arkLsMassSolve(arkls_massmem, zg, code)
  /\ UNCHANGED <<env, ark, loc, pc, tret, ret, obs, tol, root_mem, arkls_mem>>

InitSolve ==
  /\ InitOf(DefaultOptions)
  /\ arkls_mem = InitLsMem(FALSE)
  /\ arkls_massmem = InitMassMem(FALSE)

NextSolve == LsSolve \/ MassSolve

SpecSolve == InitSolve /\ [][NextSolve]_vars

\* ------------------------------------------------------------------------
\* Runs that force every step to pass (ARKodeSetForcePass)
\* ------------------------------------------------------------------------
\* user programs that set force_pass, with the default maxnef and with
\* ARKodeSetMaxErrTestFails(arkode_mem, 1)
ForceOptions ==
  { [DefaultOptions EXCEPT !.force_pass = TRUE, !.faults = {"err"}],
    [DefaultOptions EXCEPT !.force_pass = TRUE, !.maxnef = 1, !.faults = {"err"}],
    [DefaultOptions EXCEPT !.force_pass = TRUE, !.hmin = 3, !.hmax = 6,
                           !.faults = {"conv", "err"}] }

InitForce ==
  /\ \E o \in ForceOptions : InitOf(o)
  /\ arkls_mem = InitLsMem(FALSE)
  /\ arkls_massmem = InitMassMem(FALSE)

SpecForce == InitForce /\ [][Next]_vars

\* ------------------------------------------------------------------------
\* Fixed-step runs (ARKodeSetFixedStep)
\* ------------------------------------------------------------------------
\* user programs with a fixed step size whose stepper reports large error
\* estimates, with and without a stop time, constraints and failing solves
FixedOptions ==
  { [DefaultOptions EXCEPT !.fixedstep = TRUE, !.hin = 4, !.faults = {"err", "adapt"}],
    [DefaultOptions EXCEPT !.fixedstep = TRUE, !.hin = 4, !.tstop = 10,
                           !.faults = {"err", "adapt"}],
    [DefaultOptions EXCEPT !.fixedstep = TRUE, !.hin = 4, !.constraintsSet = TRUE,
                           !.faults = {"err", "constr", "conv"}] }

InitFixed ==
  /\ \E o \in FixedOptions : InitOf(o)
  /\ arkls_mem = InitLsMem(FALSE)
  /\ arkls_massmem = InitMassMem(FALSE)

SpecFixed == InitFixed /\ [][Next]_vars

\* ------------------------------------------------------------------------
\* ARKodeRootInit (arkode_root.c), at the level of its allocations
\* ------------------------------------------------------------------------
\* largest number of root functions passed to ARKodeRootInit
MaxRoots == 2

\* largest number of ARKodeRootInit calls
MaxRootCalls == 3

\* the root functions a caller can pass
RootFns == {"NULL", "g1", "g2"}

\* outcome of ARKodeRootInit: the value returned, the root memory, and
\* whether the integrator's vectors were freed
RootRet(retval, r, freed) == [retval |-> retval, mem |-> r, freed |-> freed]

\* lines 181-271: the six allocations; k is the index in RootArrays of the
\* malloc that fails (0: none), which frees the arrays allocated before it
RootAlloc(r, nrt, k) ==
  IF k = 0
    THEN RootRet("ARK_SUCCESS",
                 [r EXCEPT !.size = [a \in DOMAIN NoArrays |-> nrt],
                           !.lrw = @ + 3 * nrt], FALSE)
    ELSE RootRet("ARK_MEM_FAIL",
                 [r EXCEPT !.size = [a \in DOMAIN NoArrays |->
                                       IF \E i \in 1..k : RootArrays[i] = a
                                         THEN 0 ELSE r.size[a]]],
                 FALSE)

\* lines 122-179, r being the root memory after lines 100-120
RootSet(r, nrt, g, k) ==
  IF nrt = 0
    THEN RootRet("ARK_SUCCESS", [r EXCEPT !.nrtfn = nrt, !.gfun = "NULL"], FALSE)
  ELSE IF nrt = r.nrtfn
    THEN IF g # r.gfun
           THEN IF g = "NULL"
                  THEN RootRet("ARK_ILL_INPUT",
                               [r EXCEPT !.size = NoArrays, !.lrw = @ - 3 * nrt],
                               FALSE)
                  ELSE RootRet("ARK_SUCCESS", [r EXCEPT !.gfun = g], FALSE)
           ELSE RootRet("ARK_SUCCESS", r, FALSE)
  ELSE IF g = "NULL"
    THEN RootRet("ARK_ILL_INPUT", [r EXCEPT !.nrtfn = nrt], FALSE)
  ELSE RootAlloc([r EXCEPT !.nrtfn = nrt, !.gfun = g], nrt, k)

\* lines 100-120: a different number of root functions frees the arrays
RootFreeOld(r, nrt, g, k) ==
  RootSet(IF nrt # r.nrtfn /\ r.nrtfn > 0
            THEN [r EXCEPT !.size = NoArrays, !.lrw = @ - 3 * r.nrtfn]
            ELSE r,
          nrt, g, k)

\* lines 54-98: vecfail and memfail tell that N_VClone (for fn) and the malloc
\* of the structure fail
RootInit(r, nrt, g, vecfail, memfail, k) ==
  IF nrt > 0 /\ ~r.fn /\ vecfail
    THEN RootRet("ARK_MEM_FAIL", r, TRUE)
  ELSE IF ~r.mem /\ memfail
    THEN RootRet("ARK_MEM_FAIL", [r EXCEPT !.fn = @ \/ nrt > 0], FALSE)
  ELSE RootFreeOld([r EXCEPT !.fn = @ \/ nrt > 0, !.mem = TRUE], nrt, g, k)

\* x is the outcome of the call ARKodeRootInit(arkode_mem, nrtfn, g)
RootInitDone(x, nrtfn, g) ==
  /\ root_mem' = [x.mem EXCEPT !.calls = @ + 1,
                               !.call = [nrtfn |-> nrtfn, g |-> g,
                                         retval |-> x.retval]]
  /\ tol' = IF x.freed THEN arkFreeVectors(tol) ELSE tol

ARKodeRootInit ==
  /\ tol.vectors
  /\ root_mem.calls < MaxRootCalls
  /\ \E nrtfn \in -1..MaxRoots, g \in RootFns, vecfail \in BOOLEAN,
        memfail \in BOOLEAN, k \in 0..Len(RootArrays) :
       RootInitDone(RootInit(root_mem, IF nrtfn < 0 THEN 0 ELSE nrtfn, g,
                             vecfail, memfail, k),
                    nrtfn, g)
  /\ IntegratorUnchanged

InitRoot == Init /\ ark = InitArk(DefaultOptions) /\ env = DefaultOptions.faults

NextRoot == ARKodeRootInit

SpecRoot == InitRoot /\ [][NextRoot]_vars

\* ------------------------------------------------------------------------
\* Properties
\* ------------------------------------------------------------------------
\* ARKodeEvolve has returned a negative status from the places named in fs
FailedFrom(fs) == pc = "idle" /\ IsNeg(ret) /\ obs.from \in fs

\* C1: whenever ARKodeEvolve returns a negative status after a step attempt
\* or after a post-step stop check, yout holds yn, the last accepted
\* solution, and *tret and tretlast hold the time of that solution.
FailureReturnsLastSolution ==
  FailedFrom({"attempt", "step", "post"}) =>
    /\ yout = ark.yn
    /\ tret = ark.tretlast
    /\ ark.yn = obs.good.y => tret = obs.good.t

\* C2: every negative flag raised during a step is the value ARKodeEvolve
\* returns: none is dropped or replaced by another code.
FatalCodePassesThrough ==
  (FailedFrom({"step"}) /\ IsNeg(obs.raised)) => ret = obs.raised

\* C3: after ARKodeEvolve has returned a failure from the step loop, the
\* integrator is in its last-good state: tcur = tn, yn is the solution
\* accepted at tn and nst counts exactly the completed steps.
FailureLeavesLastGoodState ==
  FailedFrom({"top", "attempt", "step", "post"}) =>
    /\ ark.tcur = ark.tn
    /\ ark.tn = obs.good.t
    /\ ark.yn = obs.good.y
    /\ ark.nst = obs.good.n

\* C4: while a stop time is set the integrator never passes it: once a step
\* has been completed, (tcur - tstop) * h <= 0.
NeverPassesTstop ==
  (ark.tstopset /\ obs.good.n > 0) => (ark.tcur - ark.tstop) * ark.h <= 0

\* the call was ended at the top of the step loop with mxstep steps completed
EndedAtMxstep ==
  pc = "idle" /\ obs.from = "top" /\ ark.mxstep > 0 /\ loc.nstloc >= ark.mxstep

\* a call never completes more than mxstep steps, and attempts none after them
AtMostMxstep ==
  ark.mxstep > 0 =>
    /\ loc.nstloc <= ark.mxstep
    /\ pc = "attempt" => loc.nstloc < ark.mxstep

\* C5 as stated: with mxstep > 0 a call completes at most mxstep steps; once
\* mxstep steps are completed it returns ARK_TOO_MUCH_WORK with yout = yn and
\* tret = tcur, and attempts no further step.
MxstepEndsCall ==
  /\ AtMostMxstep
  /\ EndedAtMxstep =>
       ret = "ARK_TOO_MUCH_WORK" /\ yout = ark.yn /\ tret = ark.tcur

\* C5 amended: with mxstep > 0 a call completes at most mxstep steps; once
\* mxstep steps are completed it attempts no further step and returns with
\* yout = yn and tret = tcur, the status being ARK_TOO_MUCH_WORK unless the
\* refresh of the error weights fails first, which returns ARK_ILL_INPUT.
MxstepEndsCallUnlessWeightsFail ==
  /\ AtMostMxstep
  /\ EndedAtMxstep =>
       /\ ret \in {"ARK_TOO_MUCH_WORK", "ARK_ILL_INPUT"}
       /\ yout = ark.yn
       /\ tret = ark.tcur

\* a call was ended with ARK_TOO_MUCH_WORK after exactly mxstep steps
MxstepReached ==
  EndedAtMxstep /\ ret = "ARK_TOO_MUCH_WORK" /\ loc.nstloc = ark.mxstep

\* a step ended with a fatal convergence-failure or error-test-failure status
FatalConvOrErr ==
  FailedFrom({"attempt", "step"}) /\ ret \in {"ARK_CONV_FAILURE", "ARK_ERR_FAILURE"}

ConstraintRetries(a) == IF a.constraintsSet THEN a.maxconstrfails - 1 ELSE 0

StopReturn ==
  /\ pc = "idle"
  /\ obs.from \in {"entry", "post"}
  /\ ret \in {"ARK_ROOT_RETURN", "ARK_TSTOP_RETURN", "ARK_SUCCESS"}

\* C7 as stated: when several stop conditions hold at one check, the return
\* is decided in the order root, tstop, requested output time, on entry and
\* after each completed step.
StopPriority ==
  StopReturn =>
    /\ obs.chk.root => ret = "ARK_ROOT_RETURN"
    /\ (~obs.chk.root /\ obs.chk.tstop) => ret = "ARK_TSTOP_RETURN"
    /\ (~obs.chk.root /\ ~obs.chk.tstop /\ obs.chk.tout) => ret = "ARK_SUCCESS"

\* tcur is at tstop and tout is at or beyond tstop
AtTstop(c) == c.tstop /\ c.beyond

\* C7 amended: the order is root, tstop, requested output time, where tstop
\* counts only if tout is at or beyond tstop; when tcur is at tstop and tout
\* is short of it, the return at tout is made and the stop time stays set.
\* On entry in ARK_ONE_STEP mode the return of y(tn) that a root had withheld
\* comes with the root tests, before tstop.
StopPriorityBeyond ==
  StopReturn =>
    /\ obs.chk.root => ret = "ARK_ROOT_RETURN"
    /\ obs.chk.tn => ret = "ARK_SUCCESS"
    /\ (~obs.chk.root /\ ~obs.chk.tn /\ AtTstop(obs.chk)) => ret = "ARK_TSTOP_RETURN"
    /\ (~obs.chk.root /\ ~AtTstop(obs.chk) /\ obs.chk.tout) =>
         ret = "ARK_SUCCESS" /\ (obs.chk.tstop => ark.tstopset)

\* a root, tstop and tout all coincide at the check after a step
AllStopsCoincide ==
  /\ StopReturn
  /\ obs.from = "post"
  /\ obs.chk.root /\ AtTstop(obs.chk) /\ obs.chk.tout

\* the call returned from the checks after a step that ended at tstop
\* (within roundoff) while tout was at or beyond tstop
StepEndedAtTstop == pc = "idle" /\ obs.from = "post" /\ AtTstop(obs.chk)

\* the return at tstop: *tret is exactly tstop, tcur was set to tstop and
\* the stop time is cleared
ExactTstopReturn ==
  /\ ret = "ARK_TSTOP_RETURN"
  /\ tret = ark.tstop
  /\ ark.tcur = ark.tstop
  /\ ~ark.tstopset

\* C8 as stated: when a step ends at tstop and tout is at or beyond tstop,
\* ARKodeEvolve returns ARK_TSTOP_RETURN with *tret exactly tstop, tcur set
\* to tstop, and the stop time cleared.
TstopReturnAfterStep == StepEndedAtTstop => ExactTstopReturn

\* C8 amended: the same, unless a root is found in that step (the root is
\* returned first and tstop stays set) or the call fails (the root function
\* or the interpolation at tstop fails).
TstopReturnUnlessRoot ==
  (StepEndedAtTstop /\ ~obs.chk.root /\ ~IsNeg(ret)) => ExactTstopReturn

\* a step whose end tn + h was not exactly tstop was returned at tstop
SnappedToTstop ==
  /\ StepEndedAtTstop
  /\ ExactTstopReturn
  /\ ark.yn[2] + ark.yn[3] # ark.tstop

\* the call in progress, or the last one made, repeats the tout of the call
\* before it, which had returned ARK_TSTOP_RETURN or ARK_ROOT_RETURN
Resumed ==
  /\ obs.prev.ret \in {"ARK_TSTOP_RETURN", "ARK_ROOT_RETURN"}
  /\ obs.prev.tout = loc.tout
  /\ obs.calls > 1

\* C9: a call repeated with the same tout right after ARK_TSTOP_RETURN or
\* ARK_ROOT_RETURN takes no completed step again: every step attempt starts
\* at the end tn of the last completed step, nst counts each completed step
\* once, and the tstop or root already reported is not reported again.
ResumeTakesNoStepTwice ==
  Resumed =>
    /\ pc = "attempt" => ark.tn = obs.good.t /\ ark.tcur = ark.tn
    /\ ark.nst = obs.good.n
    /\ pc = "idle" => ret # obs.prev.ret

\* a repeated call completed a new step and returned
ResumedAndStepped ==
  Resumed /\ pc = "idle" /\ loc.nstloc > 0 /\ ret = "ARK_SUCCESS"

\* C10: with hmin and hmax_inv both nonzero, every accepted step has
\* hmin <= |h| <= 1/hmax_inv.
AcceptedStepWithinBounds ==
  (ark.hmin > 0 /\ ark.hmax > 0 /\ ark.nst > 0) =>
    (ark.hmin <= SUNRabs(ark.hold) /\ SUNRabs(ark.hold) <= ark.hmax)

\* C11: whenever h is rescaled by eta, for a retry of the step or for the
\* next step, eta lies in [hmin/|h|, etamax] and |h*eta|*hmax_inv <= 1.
EtaWithinBoundsWhenApplied ==
  obs.scale.at # "none" =>
    /\ obs.scale.eta >= Ratio(ark.hmin, SUNRabs(obs.scale.h))
    /\ obs.scale.eta <= obs.scale.etamax
    /\ ark.hmax # 0 => SUNRabs(MulEta(obs.scale.h, obs.scale.eta)) <= ark.hmax

\* C12: ncf and nef are zero when a new step starts and below maxncf and
\* maxnef at the start of every step attempt; a step whose attempt loop is
\* left with a counter at its limit has ended with a fatal status.
CountersBelowLimits ==
  /\ pc = "attempt" => loc.ncf < ark.maxncf /\ loc.nef < ark.maxnef
  /\ (pc = "attempt" /\ loc.attempts = 0) => loc.ncf = 0 /\ loc.nef = 0
  /\ (obs.cnt.ncf >= ark.maxncf \/ obs.cnt.nef >= ark.maxnef) =>
       FailedFrom({"attempt", "step"})

\* a step was retried after a convergence failure and after an error test
\* failure, and ended when a counter reached its limit
CounterReachedLimit ==
  /\ obs.cnt.ncf > 0 /\ obs.cnt.nef > 0
  /\ obs.cnt.ncf = ark.maxncf \/ obs.cnt.nef = ark.maxnef

\* C13: at the start of every step attempt tcur = tn (tcur being moved only
\* by arkCompleteStep once the integrator is initialized).
AttemptStartsAtTn == pc = "attempt" => ark.tcur = ark.tn

\* C14: at every step attempt h is nonzero and has the sign of tout - tcur.
StepSignMatchesTout ==
  pc = "attempt" => ark.h # 0 /\ ark.h * (loc.tout - ark.tcur) > 0

\* a call has returned from a run with maxncf = 1 whose stepper reports
\* nonlinear non-convergence on every attempt
NeverConverges == ark.maxncf = 1 /\ "nonconv" \in env /\ pc = "idle" /\ obs.calls > 0

\* C15: with maxncf = 1 and a stepper that never converges, ARKodeEvolve
\* returns ARK_CONV_FAILURE after exactly one retry of the step (a second
\* attempt), with ncfn = 1 at that return.
ConvFailureAfterOneRetry ==
  (NeverConverges /\ obs.calls = 1) =>
    ret = "ARK_CONV_FAILURE" /\ obs.attempts = 2 /\ ark.ncfn = 1

\* C15 as the code has it: each call returns ARK_CONV_FAILURE after its first
\* attempt, without a retry, and ncfn counts one failure for each call made.
ConvFailureWithoutRetry ==
  NeverConverges =>
    /\ ret = "ARK_CONV_FAILURE" /\ obs.attempts = 1 /\ ark.ncfn = obs.calls
    /\ obs.cnt.ncf = 1 /\ ark.nst = 0

\* the first call of such a run has returned
FirstCallNeverConverged == NeverConverges /\ obs.calls = 1 /\ ark.ncfn = 1

\* C16: when the weight function fails as ARKodeEvolve sets or refreshes the
\* weights, the call returns ARK_ILL_INPUT with yout = yn, no step having been
\* taken or attempted since the last completed one.
WeightFailureReturnsYn ==
  (pc = "idle" /\ obs.wfail) =>
    /\ ret = "ARK_ILL_INPUT" /\ yout = ark.yn
    /\ obs.attempts = 0 /\ ark.nst = obs.good.n /\ ark.tcur = ark.tn

\* C17: an attempt for which the stepper returns a positive value (TRY_AGAIN)
\* is never accepted as a completed step: the step is retried with a reduced
\* step size, or the call ends with a fatal status before the step is completed.
PositiveStepperReturnRecovers ==
  /\ (pc = "attempt" /\ loc.stepk = "TRY_AGAIN") =>
       /\ obs.scale.at = "retry" /\ obs.scale.eta < ONE
       /\ ark.h = MulEta(obs.scale.h, obs.scale.eta)
  /\ obs.cnt.stepk = "TRY_AGAIN" =>
       FailedFrom({"attempt", "step"}) /\ ark.tcur = obs.good.t

\* C18: when the step-size controller fails in the error test of an attempt
\* the call ends with ARK_ERR_FAILURE, and when it fails as it is notified of
\* the completed step the call ends with ARK_CONTROLLER_ERR.
ControllerFailureCodes ==
  /\ obs.cnt.adaptfail => FailedFrom({"step"}) /\ ret = "ARK_ERR_FAILURE"
  /\ obs.raised = "ARK_CONTROLLER_ERR" =>
       FailedFrom({"step"}) /\ ret = "ARK_CONTROLLER_ERR"

\* the absolute tolerance of each component
AbsTol(t) == IF t.itol = "SS" THEN [i \in Components |-> t.Sabstol] ELSE t.Vabstol

\* reltol*|y_i| + abstol_i at the last call of the weight function
WeightDenominator(i) == tol.reltol * SUNRabs(tol.call.y[i]) + AbsTol(tol)[i]

\* C19: a call of arkEwtSetSS or arkEwtSetSV returns 0 or -1; when it returns
\* 0 every component of ewt is the strictly positive weight
\* 1/(reltol*|y_i| + abstol_i); it returns -1 only when some component of the
\* absolute tolerance is exactly zero and reltol*|y_i| + abstol_i <= 0 at
\* some index i.
WeightsPositiveOrFailure ==
  tol.call.made =>
    /\ tol.call.retval \in {0, -1}
    /\ tol.call.retval = 0 =>
         \A i \in Components :
           /\ tol.ewt[i].num * tol.ewt[i].den > 0
           /\ tol.ewt[i] = [num |-> 1, den |-> WeightDenominator(i)]
    /\ tol.call.retval = -1 =>
         /\ \E j \in Components : AbsTol(tol)[j] = 0
         /\ \E i \in Components : WeightDenominator(i) <= 0

\* arkEwtSetSV failed on a vector tolerance with a positive and a zero
\* component, after an earlier call had stored weights
WeightFunctionFailed ==
  /\ tol.call.made /\ tol.call.retval = -1 /\ tol.itol = "SV"
  /\ \E j \in Components : tol.Vabstol[j] > 0
  /\ tol.ewt # <<>>

\* C20: whenever the stored number of root functions is positive, the six
\* root work arrays have exactly nrtfn entries and the root function is set.
RootArraysMatchNrtfn ==
  root_mem.nrtfn > 0 =>
    /\ \A a \in DOMAIN root_mem.size : root_mem.size[a] = root_mem.nrtfn
    /\ root_mem.gfun # "NULL"

\* the fields ARKodeReset is to keep: counters and step-size history
HistoryFields == {"nst", "ncfn", "chist", "h0u", "hold", "next_h"}

\* ARKodeReset or a re-initialization has just returned ARK_SUCCESS
JustInit(kind) == obs.rst.kind = kind /\ obs.rst.ret = "ARK_SUCCESS"

\* tcur = tn = tR and yn = yR
RestartsAt(tR) == ark.tcur = tR /\ ark.tn = tR /\ ark.yn = <<"yR">>

\* C21 as stated: a reset of an integrator that an Evolve call has set up
\* sets tcur = tn = tR, yn = yR and keeps the counters, etamax and the step
\* history; a full re-initialization zeroes the counters, etamax and the step
\* history; a reset before the first setup acts as a full initialization.
ResetKeepsReInitZeroesAll ==
  /\ (JustInit("reset") /\ obs.rst.before.initialized) =>
       /\ RestartsAt(obs.rst.tR)
       /\ ark.etamax = obs.rst.before.etamax
       /\ \A f \in HistoryFields : ark[f] = obs.rst.before[f]
  /\ (JustInit("reinit") \/ (JustInit("reset") /\ ~obs.rst.before.initialized)) =>
       /\ RestartsAt(obs.rst.tR)
       /\ ark.etamax = 0
       /\ \A f \in HistoryFields : ark[f] = 0

\* C21: a reset of an integrator that an Evolve call has set up sets
\* tcur = tn = tR, yn = yR and keeps the counters, etamax and the step
\* history; a full re-initialization zeroes the counters and the step history
\* and leaves etamax as it was; a reset before the first setup acts as a
\* full initialization.
ResetKeepsReInitZeroes ==
  /\ (JustInit("reset") /\ obs.rst.before.initialized) =>
       /\ RestartsAt(obs.rst.tR)
       /\ ark.etamax = obs.rst.before.etamax
       /\ \A f \in HistoryFields : ark[f] = obs.rst.before[f]
  /\ (JustInit("reinit") \/ (JustInit("reset") /\ ~obs.rst.before.initialized)) =>
       /\ RestartsAt(obs.rst.tR)
       /\ ark.etamax = obs.rst.before.etamax
       /\ \A f \in HistoryFields : ark[f] = 0
       /\ ark = arkInit(obs.rst.before, obs.rst.tR, <<"yR">>, "FIRST_INIT", "none").ark

\* an integrator with completed steps and convergence failures was reset
ResetAfterSteps ==
  /\ JustInit("reset") /\ obs.rst.before.initialized
  /\ ark.nst > 0 /\ ark.hold # 0 /\ ark.etamax # 0 /\ ark.tcur # obs.rst.before.tcur

\* C22: a tolerance function that fails because arkAllocVec failed returns
\* a memory-failure code, not the code of ill-posed input.
AllocFailureReturnsMemFail ==
  tol.set.cause = "alloc" =>
    tol.set.retval \in {"ARK_MEM_FAIL", "ARKLS_MEM_FAIL"} /\ tol.set.retval # "ARK_ILL_INPUT"

\* the integrator holds no vector
NoVectorAllocated(t) ==
  ~t.vectors /\ ~t.rwt /\ t.Vabstol = <<>> /\ t.VRabstol = <<>>

\* the vectors counted in lrw are those that exist
LiveVectors(t) ==
  (IF t.vectors THEN Cardinality(InitVectors) ELSE 0) + (IF t.rwt THEN 1 ELSE 0)
    + (IF t.Vabstol # <<>> THEN 1 ELSE 0) + (IF t.VRabstol # <<>> THEN 1 ELSE 0)

\* C23: after a failed clone in arkAllocVec no vector of the integrator
\* remains allocated, and neither the allocation flags nor lrw record a
\* released vector as allocated.
AllocFailureRollsBack ==
  tol.mem /\ tol.set.cause = "alloc" =>
    /\ NoVectorAllocated(tol)
    /\ ~tol.MallocDone /\ ~tol.VabstolMallocDone /\ ~tol.VRabstolMallocDone
    /\ tol.lrw = LiveVectors(tol)

\* C24: after ARKodeFree nothing the integrator allocated remains
\* allocated, whatever tolerance functions were called before.
FreeReleasesEverything ==
  ~tol.mem => NoVectorAllocated(tol) /\ ~root_mem.mem

\* C26: a step is completed only for an attempt whose convergence check
\* succeeded and, when constraints are set, whose constraint check passed.
CompletedOnlyIfConverged ==
  obs.good.n > 0 => obs.good.conv /\ (ark.constraintsSet => obs.good.cons)

\* C25: the saved Jacobian stays inside the linear solver interface: no
\* accessor reads it or hands it to another component.
SavedJacobianPrivate == ~arkls_mem.shared

\* C27: in a step attempt, a negative return of the Jacobian or linear
\* system function makes arkLsSetup return a negative value and the call
\* end with ARK_LSETUP_FAIL; a positive return makes arkLsSetup return a
\* positive value and the step be retried with a smaller step size.
JacobianFailureSigns ==
  [][pc = "attempt" =>
       /\ arkls_mem'.call.jr < 0 =>
            /\ arkls_mem'.call.retval < 0
            /\ pc' = "idle" /\ ret' = "ARK_LSETUP_FAIL"
       /\ arkls_mem'.call.jr > 0 =>
            /\ arkls_mem'.call.retval > 0
            /\ pc' = "attempt" /\ SUNRabs(ark'.h) < SUNRabs(ark.h)]_vars

\* C28: with the interface's own linear system function, arkLsSetup
\* evaluates the Jacobian (and on success stores it in savedJ and builds A
\* from it) exactly when initsetup holds, or nst >= nstlj + msbj, or the
\* context is ARK_FAIL_BAD_J without dgamma_fail, or ARK_FAIL_OTHER; in
\* every other case it builds A from the unchanged savedJ.
JacobianReusePolicy ==
  [][pc = "attempt" /\ ~arkls_mem.user_linsys =>
       IF \/ ark.initsetup
          \/ ark.nst - arkls_mem.nstlj >= arkls_mem.msbj
          \/ arkls_mem'.call.convfail = "ARK_FAIL_OTHER"
          \/ (arkls_mem'.call.convfail = "ARK_FAIL_BAD_J"
                /\ ~arkls_mem'.call.dgamma_fail)
         THEN /\ arkls_mem'.call.evaluated /\ ~arkls_mem'.call.jok
              /\ arkls_mem'.call.jr = 0 =>
                   /\ arkls_mem'.savedJ = NewJac(ark)
                   /\ arkls_mem'.A = arkls_mem'.savedJ
         ELSE /\ ~arkls_mem'.call.evaluated /\ arkls_mem'.call.jok
              /\ arkls_mem'.savedJ = arkls_mem.savedJ
              /\ arkls_mem'.A = arkls_mem.savedJ]_vars

\* a setup reused a Jacobian evaluated at an earlier step
JacobianReused ==
  /\ arkls_mem.call.made /\ arkls_mem.call.jok /\ ~arkls_mem.user_linsys
  /\ arkls_mem.savedJ.state = "J" /\ arkls_mem.A = arkls_mem.savedJ
  /\ arkls_mem.savedJ.nst < ark.nst

\* C29: nje, nstlj and tnlj change only in a setup whose Jacobian evaluation
\* succeeded and was stored in savedJ, and a setup that reuses savedJ finds
\* in it a Jacobian evaluated fewer than msbj completed steps earlier.
JacobianRecordOnlyWhenStored ==
  [][pc = "attempt" /\ ~arkls_mem.user_linsys =>
       /\ <<arkls_mem'.nje, arkls_mem'.nstlj, arkls_mem'.tnlj>>
            # <<arkls_mem.nje, arkls_mem.nstlj, arkls_mem.tnlj>> =>
            /\ arkls_mem'.call.evaluated /\ arkls_mem'.call.jr = 0
            /\ arkls_mem'.savedJ = NewJac(ark)
       /\ arkls_mem'.call.jok =>
            /\ arkls_mem.savedJ.state = "J"
            /\ ark.nst - arkls_mem.savedJ.nst < arkls_mem.msbj]_vars

\* C30: a call of arkLsMassSetup that returns success without assembling
\* the mass matrix follows a setup call that did not fail, and finds a mass
\* matrix that an earlier call assembled and factored successfully, for the
\* same time t if the matrix depends on time.
MassSkipOnlyAfterSuccess ==
  arkls_massmem.call.made /\ ~arkls_massmem.call.assembled
                          /\ arkls_massmem.call.retval = 0 =>
    /\ arkls_massmem.call.prev = 0
    /\ arkls_massmem.M # NeverSetUp
    /\ arkls_massmem.M_lu = arkls_massmem.M
    /\ arkls_massmem.time_dependent => arkls_massmem.M_lu = arkls_massmem.call.t

\* C31: arkLsSolve and arkLsMassSolve return 0 only if the linear solver
\* returned success (or, in arkLsSolve, a reduced residual in the first
\* nonlinear iteration); for every other return value of the solver they
\* return a nonzero value.
SolveSuccessOnlyIfSolverSucceeded ==
  /\ arkls_mem.solve.made /\ arkls_mem.solve.retval = 0 =>
       \/ arkls_mem.solve.code = "SUN_SUCCESS"
       \/ arkls_mem.solve.code = "SUNLS_RES_REDUCED" /\ arkls_mem.solve.mnewt = 0
  /\ arkls_massmem.solve.made /\ arkls_massmem.solve.retval = 0 =>
       arkls_massmem.solve.code = "SUN_SUCCESS"

FixedStepSize(a) ==
  IF a.tstopset /\ (a.tcur + a.hin - a.tstop) * a.hin > 0
    THEN OneMinus4U(a.tstop - a.tcur) ELSE a.hin

\* the error test was made in a step attempt: it counted a failure or
\* reported a failure of the controller
ErrorTestMade(l, o) == l.nef > 0 \/ l.adaptfail \/ o.cnt.nef > 0 \/ o.cnt.adaptfail

\* C33: in fixed-step mode the error test is never made, an attempt that
\* passes the convergence, relaxation and constraint checks is completed
\* with eta = 1, and the next step is attempted with the step size hin.
FixedStepKeepsUserStep ==
  [][ark.fixedstep =>
       /\ pc = "attempt" =>
            /\ ~ErrorTestMade(loc', obs')
            /\ ark'.nst = ark.nst + 1 => ark'.eta = ONE
            /\ env \subseteq {"err", "adapt"} => ark'.nst = ark.nst + 1
       /\ (pc = "top" /\ pc' = "attempt") => ark'.h = ark.hin]_vars

\* C33 amended: as C33, but the stop-time check that follows a completed
\* step may replace eta = 1 by hprime / h with hprime = (tstop - tcur) *
\* (1 - 4 uround), and the next step is attempted with hin or, when a stop
\* time is set that a step of size hin would overtake, with that hprime.
FixedStepKeepsUserStepUpToTstop ==
  [][ark.fixedstep =>
       /\ pc = "attempt" =>
            /\ ~ErrorTestMade(loc', obs')
            /\ ark'.nst = ark.nst + 1 =>
                 \/ ark'.eta = ONE
                 \/ /\ ark'.tstopset
                    /\ ark'.hprime = OneMinus4U(ark'.tstop - ark'.tcur)
                    /\ ark'.eta = Ratio(ark'.hprime, ark'.h)
            /\ env \subseteq {"err", "adapt"} => ark'.nst = ark.nst + 1
       /\ (pc = "top" /\ pc' = "attempt") => ark'.h = FixedStepSize(ark)]_vars

\* a fixed-step run completed two steps and attempts one that is shortened
\* to end at the stop time
FixedStepShortened ==
  /\ ark.fixedstep /\ "err" \in env /\ pc = "attempt"
  /\ ark.nst = 2 /\ ark.tn = 2 * ark.hin
  /\ ark.h # ark.hin /\ ark.h = OneMinus4U(ark.tstop - ark.tcur)

\* C34: the initial setup of the first Evolve call after startup, after a
\* re-initialization and after a reset sets etamax to etamx1, and every
\* completed step sets etamax to growth.
EtamaxFirstStepBound ==
  [][/\ (pc = "idle" /\ pc' = "top"
            /\ (obs.calls = 0 \/ JustInit("reinit") \/ JustInit("reset"))) =>
          ark'.etamax = ark.etamx1
     /\ (pc = "attempt" /\ ark'.nst = ark.nst + 1) => ark'.etamax = ark.growth]_vars

\* C34 amended: the initial setup sets etamax to etamx1 only when no initial
\* step size is on record (h0u = 0: after startup and after a
\* re-initialization); after a reset of an integrator that has taken a step
\* the setup leaves etamax as the reset found it; every completed step sets
\* etamax to growth, and neither a reset nor a re-initialization changes it.
EtamaxFirstStepBoundUnlessReset ==
  [][/\ (pc = "idle" /\ pc' = "top" /\ ark.initsetup) =>
          ark'.etamax = IF ark.h0u # 0 THEN ark.etamax
                        ELSE IF ark.hin = 0 \/ ark.nst = 0 THEN ark.etamx1
                        ELSE ark.growth
     /\ (pc = "attempt" /\ ark'.nst = ark.nst + 1) => ark'.etamax = ark.growth
     /\ obs'.nrst > obs.nrst =>
          /\ ark'.etamax = ark.etamax
          /\ ark'.h0u = IF obs'.rst.kind = "reset" /\ ark.initialized
                          THEN ark.h0u ELSE 0]_vars

\* the first Evolve call after a reset has set the integrator up and the
\* step to come has the bound growth left by the last completed step
ResetKeepsGrowthBound ==
  /\ pc = "top" /\ ark.initsetup
  /\ obs.nrst > 0 /\ ark.nst > 0 /\ ark.tn \in ResetTimes /\ ark.yn = <<"yR">>
  /\ ark.etamax = ark.growth /\ ark.growth # ark.etamx1

\* C35: a completed step updates the interpolation module with the yn of
\* the start of the step, that is before yn is overwritten with the new
\* solution ycur, and whenever yn changes the module holds the yn it replaced.
InterpUpdatedBeforeYn ==
  [][pc = "attempt" /\ ark.interp =>
       /\ ark'.nst = ark.nst + 1 =>
            ark'.yn[1] \in {"step", "relax"} /\ ark'.yn[2] = ark.tn
       /\ ark'.yn # ark.yn => ark'.iyn = ark.yn
       /\ ark'.nst = ark.nst + 1 => ark'.iyn = ark.yn]_vars

\* two steps are completed and the interpolation module holds the solution
\* of the first
InterpHoldsStepStart ==
  /\ ark.interp /\ ark.nst = 2 /\ ark.tn > ark.hold
  /\ ark.iyn = <<"step", T0, ark.tn - ark.hold>>
  /\ ark.yn = <<"step", ark.tn - ark.hold, ark.hold>>

\* ------------------------------------------------------------------------
\* ARKodeGetDky called by the user between two ARKodeEvolve calls
\* ------------------------------------------------------------------------
\* s = (t - tcur) / h, the offset handed to arkInterpEvaluate, in units of
\* 1 / EtaScale
DkyOffset(a, t) == Ratio(t - a.tcur, a.h)

\* the times t of the last step that ARKodeGetDky may be asked for
DkyTimes(a) == IF a.hold < 0 THEN a.tcur .. (a.tcur - a.hold)
               ELSE (a.tcur - a.hold) .. a.tcur

\* ARKodeGetDky(t) reaches the evaluation of the interpolant
DkyAccepts(a, t) == a.interp /\ a.h # 0 /\ ~BadT(a, t)

\* C36: between two ARKodeEvolve calls, every t that ARKodeGetDky accepts
\* is evaluated at a normalized offset s in [-1, 0], also after an
\* ARKodeEvolve call that failed.
DkyOffsetInUnitInterval ==
  pc = "idle" /\ obs.calls > 0 =>
    \A t \in DkyTimes(ark) :
      DkyAccepts(ark, t) => DkyOffset(ark, t) \in (-EtaScale) .. 0

\* the same after the ARKodeEvolve calls that completed their last step
DkyOffsetInUnitIntervalAfterStep ==
  pc = "idle" /\ obs.calls > 0 /\ ark.h = ark.hold =>
    \A t \in DkyTimes(ark) :
      DkyAccepts(ark, t) => DkyOffset(ark, t) \in (-EtaScale) .. 0

\* ------------------------------------------------------------------------
\* The six tolerance-setting calls (arkode.c: ARKodeSStolerances,
\* ARKodeSVtolerances, ARKodeWFtolerances, ARKodeResStolerance,
\* ARKodeResVtolerance, ARKodeResFtolerance) in any order, for a stepper
\* that supports mass matrices
\* ------------------------------------------------------------------------
\* the part of ARKodeResFtolerance after the allocation of rwt
ResFStore(t) ==
  IF ~t.vectors THEN t
  ELSE [t EXCEPT !.ritol = "WF", !.user_rfun = TRUE,
                 !.set = SetRet("ARK_SUCCESS", "none")]

ARKodeWFtolerances ==
  /\ tol.mem /\ tol.vectors
  /\ tol' = [tol EXCEPT !.itol = "WF", !.user_efun = TRUE, !.call = NoEwtCall,
                        !.set = SetRet("ARK_SUCCESS", "none")]
  /\ IntegratorUnchanged /\ UNCHANGED root_mem

ARKodeResFtolerance ==
  /\ tol.mem /\ tol.vectors
  /\ \E ok \in IF tol.rwt_is_ewt THEN BOOLEAN ELSE {TRUE} :
       tol' = ResFStore(AllocRwt(tol, ok))
  /\ IntegratorUnchanged /\ UNCHANGED root_mem

NextTol ==
  \/ ARKodeSStolerances \/ ARKodeSVtolerances \/ ARKodeWFtolerances
  \/ ARKodeResStolerance \/ ARKodeResVtolerance \/ ARKodeResFtolerance

SpecTol == InitEwt /\ [][NextTol]_vars

\* C37: after any sequence of tolerance-setting calls, user_efun is true
\* exactly when itol is ARK_WF and user_rfun is true exactly when ritol is
\* ARK_WF.
UserFunFlagsMatchTolType ==
  /\ tol.user_efun <=> tol.itol = "WF"
  /\ tol.user_rfun <=> tol.ritol = "WF"

\* ------------------------------------------------------------------------
\* The difference-quotient Jacobian-vector product (arkode_ls.c:
\* arkLsDQJtimes) for a system of one equation.  v, y and ewt are integers;
\* sig and the perturbed state work = y + sig*v are in units of 1/SigScale.
\* What Jt_f writes to Jv is kept symbolic: <<"f", work>> is f(t, work) and
\* <<"dq", work, fy, sig>> is (f(t, work) - fy) / sig.
\* ------------------------------------------------------------------------
MAX_DQITERS == 3

MaxDQCalls == 2

SigScale == 4 ^ MAX_DQITERS

\* the inputs of a call: v is not zero
DQVs == {-1, 2}

DQYs == {3}

DQEwts == {1, 2}

\* what Jt_f may return: negative is unrecoverable, positive recoverable
JtfRets == -1 .. 2

\* a perturbation that is never shrunk
MulPT25_Keep(sig) == sig

\* sig *= PT25
MulPT25(sig) == sig \div 4

\* sig = ONE / N_VWrmsNorm(v, ewt)
DQSig0(v, ewt) == SigScale \div SUNRabs(v * ewt)

\* what a call returns and leaves in Jv, after nfe evaluations of Jt_f
DQR(retval, nfe, Jv) == [retval |-> retval, nfe |-> nfe, Jv |-> Jv]

\* the for loop from iteration iter on; rets[i] is what the i-th evaluation
\* of Jt_f returns, Jv the contents of Jv on entry
RECURSIVE DQLoop(_, _, _, _, _, _, _)
DQLoop(iter, sig, v, y, rets, nfe, Jv) ==
  IF iter >= MAX_DQITERS THEN DQR(1, nfe, Jv)
  ELSE IF rets[iter + 1] = 0
    THEN DQR(0, nfe + 1, <<"dq", y * SigScale + sig * v, <<"f", y * SigScale>>, sig>>)
  ELSE IF rets[iter + 1] < 0
    THEN DQR(-1, nfe + 1, <<"f", y * SigScale + sig * v>>)
  ELSE DQLoop(iter + 1, MulPT25(sig), v, y, rets, nfe + 1,
              <<"f", y * SigScale + sig * v>>)

\* the interface after the call whose outcome is r
DQCalled(m, v, y, ewt, rets, r) ==
  [m EXCEPT !.nfeDQ = @ + r.nfe,
            !.dq = [made |-> TRUE, n |-> m.dq.n + 1, v |-> v, y |-> y, ewt |-> ewt,
                    rets |-> rets, retval |-> r.retval, nfe |-> r.nfe, Jv |-> r.Jv]]

arkLsDQJtimes(m, v, y, ewt, rets) ==
  DQCalled(m, v, y, ewt, rets, DQLoop(0, DQSig0(v, ewt), v, y, rets, 0, <<"none">>))

\* the linear solver asks for a Jacobian-vector product
DQJtimes ==
  /\ arkls_mem.dq.n < MaxDQCalls
  /\ \E v \in DQVs, y \in DQYs, ewt \in DQEwts, rets \in [1 .. MAX_DQITERS -> JtfRets] :
       arkls_mem' = arkLsDQJtimes(arkls_mem, v, y, ewt, rets)
  /\ UNCHANGED <<env, ark, loc, pc, tret, ret, obs, tol, root_mem, arkls_massmem>>

NextDQ == DQJtimes

SpecDQ == InitSolve /\ [][NextDQ]_vars

\* the evaluations of a call that fail recoverably before the first one
\* that does not
DQFailedFirst(rets) ==
  Cardinality({i \in 1 .. MAX_DQITERS : \A j \in 1 .. i : rets[j] > 0})

\* sig0 * 0.25^k
DQSigAfter(sig0, k) == sig0 \div (4 ^ k)

\* C38: a call of arkLsDQJtimes evaluates the right-hand side at most
\* MAX_DQITERS times, shrinking sigma by the factor 0.25 after each
\* recoverable failure; it returns -1 at the first unrecoverable failure,
\* +1 when every evaluation failed recoverably, and otherwise 0 with
\* Jv = (f(y + sigma v) - f(y)) / sigma for the sigma of the evaluation
\* that succeeded.
DQJtimesOutcome ==
  arkls_mem.dq.made =>
    LET d == arkls_mem.dq
        k == DQFailedFirst(d.rets)
        s == DQSigAfter(DQSig0(d.v, d.ewt), k)
    IN  /\ d.nfe <= MAX_DQITERS
        /\ IF k = MAX_DQITERS THEN d.retval = 1 /\ d.nfe = MAX_DQITERS
           ELSE /\ d.nfe = k + 1
                /\ IF d.rets[k + 1] < 0 THEN d.retval = -1
                   ELSE /\ d.retval = 0
                        /\ d.Jv = <<"dq", d.y * SigScale + s * d.v,
                                    <<"f", d.y * SigScale>>, s>>

\* a call that succeeds at its third evaluation, after two recoverable
\* failures, with sigma shrunk twice
DQShrunkTwice ==
  /\ arkls_mem.dq.made /\ arkls_mem.dq.retval = 0 /\ arkls_mem.dq.nfe = MAX_DQITERS
  /\ arkls_mem.dq.rets[1] > 0 /\ arkls_mem.dq.rets[2] > 0
  /\ arkls_mem.dq.Jv[4] * 16 = DQSig0(arkls_mem.dq.v, arkls_mem.dq.ewt)

\* ------------------------------------------------------------------------
\* The iteration of arkHin (arkode.c lines 2525-2593) from its entry at
\* line 2525: sign, hlb <= hub and hg = sqrt(hlb * hub) are set.  Step
\* sizes are whole numbers of ticks, rounded to the nearest one; the outcome of arkYddNorm is its return
\* value and, when it succeeds, q = sqrt(2 / yddnrm).  One action is one
\* pass of the outer loop.
\* ------------------------------------------------------------------------
H0_ITERS == 4

\* the largest whole number of lo .. hi whose square is at most x
RECURSIVE SqrtIn(_, _, _)
SqrtIn(lo, hi, x) ==
  IF lo >= hi THEN lo
  ELSE IF ((lo + hi + 1) \div 2) * ((lo + hi + 1) \div 2) <= x
    THEN SqrtIn((lo + hi + 1) \div 2, hi, x)
  ELSE SqrtIn(lo, ((lo + hi + 1) \div 2) - 1, x)

\* the square root of x <= top^2, rounded down to a whole number of ticks
SUNRsqrt(x, top) == SqrtIn(0, top, x)

\* the bounds hlb and hub on |h0|
HinBounds == {[hlb |-> 2, hub |-> 31250], [hlb |-> 8, hub |-> 31250]}

\* the values of sqrt(2 / yddnrm)
HinQs == {50, 125, 375, 1000, 40000}

\* what arkYddNorm may return: negative is unrecoverable, positive recoverable
YddRets == -1 .. 1

\* a first pass that alone may fail without recovery
HinNoRecovery_FirstOnly(count1) == count1 <= 1

\* line 2552: "Exit if this is the first or second pass. No recovery
\* possible"
HinNoRecovery(count1) == count1 <= 2

\* hg *= 0.2
HinCut(hg) == RDiv(hg, 5)

\* the locals at line 2525; good is the last hg for which arkYddNorm
\* succeeded (-1: none), nev the evaluations of the last pass and last its
\* outcome
HinLocals(b, sign) ==
  [ sign |-> sign, hlb |-> b.hlb, hub |-> b.hub, count1 |-> 1,
    hg |-> SUNRsqrt(b.hlb * b.hub, b.hub), hs |-> SUNRsqrt(b.hlb * b.hub, b.hub),
    hnew |-> 0, good |-> -1, nev |-> 0, last |-> "none" ]

\* the inner loop from iteration count2 on, after n evaluations; rets[i] is
\* what the i-th evaluation of arkYddNorm returns
RECURSIVE HinInner(_, _, _, _)
HinInner(count2, hg, rets, n) ==
  IF count2 > H0_ITERS THEN [flag |-> "fail", hg |-> hg, n |-> n]
  ELSE IF rets[count2] < 0 THEN [flag |-> "unrec", hg |-> hg, n |-> n + 1]
  ELSE IF rets[count2] = 0 THEN [flag |-> "ok", hg |-> hg, n |-> n + 1]
  ELSE HinInner(count2 + 1, HinCut(hg), rets, n + 1)

\* hnew = (yddnrm*hub*hub > 2) ? sqrt(2/yddnrm) : sqrt(hg*hub)
HinPropose(hg, hub, q) == IF hub > q THEN q ELSE SUNRsqrt(hg * hub, hub)

\* what a pass leaves: the locals, whether arkHin returns, and its value
HinR(l, flag) == [loc |-> l, flag |-> flag]

\* lines 2585-2590: bias, bounds and sign
HinH0(l, hnew) == l.sign * SUNMIN(SUNMAX(hnew \div 2, l.hlb), l.hub)

\* the pass after a successful inner loop, lines 2558-2582, hnew proposed
HinAccept(l, hnew) ==
  IF l.count1 = H0_ITERS THEN HinR([l EXCEPT !.hnew = hnew], "ARK_SUCCESS")
  ELSE IF 2 * hnew > l.hg /\ hnew < 2 * l.hg
    THEN HinR([l EXCEPT !.hnew = hnew], "ARK_SUCCESS")
  ELSE IF l.count1 > 1 /\ hnew > 2 * l.hg
    THEN HinR([l EXCEPT !.hnew = l.hg], "ARK_SUCCESS")
  ELSE HinR([l EXCEPT !.hg = hnew, !.count1 = @ + 1], "none")

\* one pass of the outer loop; in is the outcome of its inner loop
HinOuter(l, in, q) ==
  IF in.flag = "unrec"
    THEN HinR([l EXCEPT !.hg = in.hg, !.nev = in.n, !.last = in.flag],
              "ARK_RHSFUNC_FAIL")
  ELSE IF in.flag = "fail"
    THEN IF HinNoRecovery(l.count1)
           THEN HinR([l EXCEPT !.hg = in.hg, !.nev = in.n, !.last = in.flag],
                     "ARK_REPTD_RHSFUNC_ERR")
           ELSE HinR([l EXCEPT !.hg = in.hg, !.nev = in.n, !.last = in.flag,
                               !.hnew = l.hs], "ARK_SUCCESS")
  ELSE HinAccept([l EXCEPT !.hg = in.hg, !.hs = in.hg, !.good = in.hg,
                           !.nev = in.n, !.last = in.flag],
                 HinPropose(in.hg, l.hub, q))

\* the pass whose outcome is r is made: arkHin returns, setting h when it
\* succeeds, or goes on
HinPassed(r) ==
  /\ loc' = r.loc
  /\ pc' = IF r.flag = "none" THEN "hin" ELSE "hindone"
  /\ ret' = r.flag
  /\ ark' = IF r.flag = "ARK_SUCCESS"
              THEN [ark EXCEPT !.h = HinH0(r.loc, r.loc.hnew)] ELSE ark

HinPass ==
  /\ pc = "hin"
  /\ \E rets \in [1 .. H0_ITERS -> YddRets], q \in HinQs :
       HinPassed(HinOuter(loc, HinInner(1, loc.hg, rets, 0), q))
  /\ UNCHANGED <<env, tret, obs, tol, root_mem, arkls_mem, arkls_massmem>>

InitHin ==
  /\ ark = InitArk(DefaultOptions) /\ env = DefaultOptions.faults
  /\ \E b \in HinBounds, sign \in {-1, 1} : loc = HinLocals(b, sign)
  /\ pc = "hin"
  /\ tret = T0
  /\ ret = "none"
  /\ obs = InitObs
  /\ tol = InitTol
  /\ root_mem = InitRootMem
  /\ arkls_mem = InitLsMem(FALSE)
  /\ arkls_massmem = InitMassMem(FALSE)

NextHin == HinPass

SpecHin == InitHin /\ [][NextHin]_vars

HnilOptions ==
  { [DefaultOptions EXCEPT !.mxhnil = 1, !.faults = {"hnil"}],
    [DefaultOptions EXCEPT !.mxhnil = 2, !.faults = {"hnil", "err"}],
    [DefaultOptions EXCEPT !.mxhnil = 2, !.tstop = 9, !.faults = {"hnil", "acc"}] }

InitHnil ==
  /\ \E o \in HnilOptions : InitOf(o)
  /\ arkls_mem = InitLsMem(FALSE)
  /\ arkls_massmem = InitMassMem(FALSE)

SpecHnil == InitHnil /\ [][Next]_vars

\* the warning is logged for the first mxhnil occurrences of the condition
\* and the notice once, when the mxhnil-th occurrence is counted
HnilLogBounded ==
  /\ obs.hnil.warn = SUNMIN(ark.nhnil, ark.mxhnil)
  /\ obs.hnil.done = IF ark.nhnil >= ark.mxhnil THEN 1 ELSE 0

\* the top of the step loop hands the same step to the attempt loop, or
\* returns the same value, whether or not the condition holds; nothing else
\* counts or logs it
HnilLeavesStepAlone ==
  IF pc = "top"
    THEN IF pc' = "attempt"
           THEN /\ [ark' EXCEPT !.nhnil = ark.nhnil]
                     = [NextStepSize([ark EXCEPT !.next_h = ark.h])
                          EXCEPT !.last_kflag = "ARK_SUCCESS"]
                /\ loc' = ResetLoc(loc) /\ tret' = tret /\ ret' = ret
           ELSE ark'.nhnil = ark.nhnil /\ obs'.hnil = obs.hnil
    ELSE ark'.nhnil = ark.nhnil /\ obs'.hnil = obs.hnil

\* C40: over the life of a problem the warning that tcur + h equals tcur is
\* logged at most mxhnil times and the notice that no more warnings follow
\* exactly once, when the limit is reached; the condition changes neither
\* the step that is attempted nor what ARKodeEvolve returns.
HnilOnlyLogs == []HnilLogBounded /\ [][HnilLeavesStepAlone]_vars

\* the condition has occurred more often than mxhnil times
HnilLimitPassed ==
  /\ ark.nhnil > ark.mxhnil /\ obs.hnil.warn = ark.mxhnil /\ obs.hnil.done = 1
  /\ ark.nst > 0

====
